---- MODULE Spec2Model ----
(***************************************************************************)
(* Session State Engine of the RPG game night (rpg_state.py): the session  *)
(* record, the game-mode machine (rp / combat / cutscene), the turn timer, *)
(* the idle / AFK tracker and the command surface that mutates them.       *)
(*                                                                         *)
(* rpg_state.py itself is not among the source files; its commands are     *)
(* modelled from rpg/shared/GM-GUIDE.md (the operator's manual of the      *)
(* script) and, where the guide is silent, from sections 3-7 of the        *)
(* specification.                                                          *)
(*                                                                         *)
(* The gateway host is modelled from its sources: the .env writer          *)
(* (infra/dotenv-write.ts), the Twitch token resolution and the            *)
(* TwitchClientManager (extensions/twitch/src) and the startup script      *)
(* toolkit/host-scripts/start-moltbot.sh.                                  *)
(***************************************************************************)
EXTENDS Integers, Sequences, FiniteSets, TLC

VARIABLES state, disk, storageOk, now, result, queue, seen,
          envFile, tmpFile, update, processEnv, overlap,
          lockFile, flocks, instances,
          manager, callers, removers, delivered

\* The session engine: the record in memory, the record file, whether the
\* storage takes writes, the wall clock, the answer to the last command, the
\* mutate calls waiting at the store and the action log as a consumer of the
\* record file last read it.
engineVars == <<state, disk, storageOk, now, result, queue, seen>>
\* The gateway host: ~/.openclaw/.env, the temporary file next to it, the
\* updateDotEnvFile call in flight and the Twitch variables of process.env.
\* overlap holds two updateDotEnvFile calls that run in one process at the
\* same time.
envVars == <<envFile, tmpFile, update, processEnv, overlap>>
\* The startup script start-moltbot.sh: the lock file path, the flock held
\* on each file behind it and the instances of the script.
scriptVars == <<lockFile, flocks, instances>>
\* The TwitchClientManager: its two maps and the chat clients made, the
\* getClient calls in flight, the remover functions handed out by
\* onMessage and the last incoming chat message.
managerVars == <<manager, callers, removers, delivered>>
hostVars == <<envVars, scriptVars, managerVars>>
\* Everything but the .env writer, but the startup script, but the manager.
besideEnv == <<engineVars, scriptVars, managerVars>>
besideScript == <<engineVars, envVars, managerVars>>
besideManager == <<engineVars, envVars, scriptVars>>

vars == <<state, disk, storageOk, now, result, queue, seen,
          envFile, tmpFile, update, processEnv, overlap,
          lockFile, flocks, instances,
          manager, callers, removers, delivered>>

(***************************************************************************)
(* Bounds of the model and small input sets.                               *)
(***************************************************************************)
\* The wall clock runs from 0 to MaxTime seconds.
MaxTime == 3
\* The action log holds at most MaxLog entries (log-action is disabled beyond).
MaxLog == 1
\* A character is awarded at most MaxCp Character Points (award-cp is
\* disabled beyond).
MaxCp == 1
\* At most MaxQueue mutate calls wait at the store's serialization point.
MaxQueue == 2
\* The action log of the session a consumer reads along holds at most
\* MaxEntries entries.
MaxEntries == 2
\* updateDotEnvFile is called at most MaxCalls times.
MaxCalls == 2
\* Seconds of wall clock followed in the turn-timer runs.
MaxLive == 6
\* getClient calls made, and chat messages coming in, in the manager runs.
MaxGets == 3
MaxMessages == 2

Characters == {"Kira", "Stormtrooper"}
Viewers == {"alice", "renn"}
Bot == "bot"
Narrator == "gm"
Controllers == Viewers \cup {Bot}
Callers == Controllers \cup {Narrator}
Modes == {"rp", "combat", "cutscene"}
\* --timeout values tried (seconds); the script's default is 120.
Timeouts == {1, 2}
\* --characters lists tried, in the order the caller gives them.
InitiativeLists ==
    {<<"Kira">>, <<"Kira", "Stormtrooper">>, <<"Stormtrooper", "Kira">>}

\* The host side at rest: no file at a path, no call in flight, an unset
\* environment variable.
NoFile == <<"ENOENT">>
Undefined == <<"undefined">>
NoToken == [accessToken |-> Undefined, refreshToken |-> Undefined]
Idle == [pc |-> "idle", updates |-> <<>>, content |-> <<>>, output |-> <<>>,
         token |-> NoToken, account |-> Undefined, calls |-> 0]
EnvKeys == {"OPENCLAW_TWITCH_ACCESS_TOKEN", "OPENCLAW_TWITCH_REFRESH_TOKEN"}
\* The two overlapping calls: the one of the onRefresh callback and one of
\* another writer of the .env file.
PairCalls == {"refresh", "other"}
NotCalled == [pc |-> "idle", updates |-> <<>>, output |-> <<>>]
\* The invocations of start-moltbot.sh: the @reboot cron entry, the .bashrc
\* hook and one more run by hand; the files that can come to exist behind
\* /tmp/moltbot-starting.lock, one per invocation at most.
Instances == {"cron", "bashrc", "again"}
Inodes == 1..Cardinality(Instances)
NoLockFile == [inode |-> 0, created |-> 0]
NotStarted == [pc |-> "waiting", fd |-> 0]

NoIndex == -1
NoDeadline == -1
NoOne == "-"

\* The TwitchClientManager after construction, for the one account key
\* (username:channel) followed: no client stored, no handler, no chat
\* client made; the callers of getClient (one of them through sendMessage)
\* and the message handlers the plugin registers.
Callers2 == {"getClient", "sendMessage"}
Handlers == {"h1", "h2"}
NewManager ==
    [clients |-> 0, messageHandlers |-> NoOne, created |-> 0,
     connected |-> {}, gets |-> 0]
NoCall == [pc |-> "idle", client |-> 0]
NoMessage == [to |-> NoOne, count |-> 0]

(***************************************************************************)
(* Idle detection thresholds (GM-GUIDE "Idle Detection & AFK").            *)
(***************************************************************************)
IdleSkips == 2
AfkSkips == 3

StatusOfOffByOne(n) ==
    IF n > AfkSkips THEN "afk" ELSE IF n >= IdleSkips THEN "idle" ELSE "active"

StatusOf(n) ==
    IF n >= AfkSkips THEN "afk" ELSE IF n >= IdleSkips THEN "idle" ELSE "active"

(***************************************************************************)
(* The session record.                                                     *)
(***************************************************************************)
NoParticipants == [c \in {} |-> 0]

NewSession ==
    [mode         |-> "rp",
     participants |-> NoParticipants,
     initiative   |-> <<>>,
     currentIndex |-> NoIndex,
     deadline     |-> NoDeadline,
     timeout      |-> 0,
     actionLog    |-> <<>>,
     tokens       |-> <<>>,
     activeMap    |-> NoOne,
     scene        |-> NoOne,
     crawlText    |-> NoOne,
     archived     |-> FALSE]

\* f with key k bound to v (a new row, or the row replaced wholesale).
Put(f, k, v) == [x \in (DOMAIN f) \cup {k} |-> IF x = k THEN v ELSE f[x]]

\* The character whose turn it is (currentIndex counts from 0).
HasTurn(s) == s.currentIndex \in 0..(Len(s.initiative) - 1)
Current(s) == IF HasTurn(s) THEN s.initiative[s.currentIndex + 1] ELSE NoOne

\* Timestamp of the earliest action-log entry of c.
RECURSIVE FirstActionAt(_, _)
FirstActionAt(log, c) ==
    IF log = <<>> THEN -1
    ELSE IF log[1].character = c THEN log[1].timestamp
    ELSE FirstActionAt(Tail(log), c)

\* Timestamp of the latest action-log entry of c, NoDeadline (-1) when none.
RECURSIVE LastActionAt(_, _)
LastActionAt(log, c) ==
    IF log = <<>> THEN -1
    ELSE IF log[Len(log)].character = c THEN log[Len(log)].timestamp
    ELSE LastActionAt(SubSeq(log, 1, Len(log) - 1), c)

(***************************************************************************)
(* activity-summary: per character, the number of its action-log entries   *)
(* and the timestamp of the latest one.                                    *)
(***************************************************************************)
RECURSIVE ActionCount(_, _)
ActionCount(log, c) ==
    IF log = <<>> THEN 0
    ELSE (IF Head(log).character = c THEN 1 ELSE 0) + ActionCount(Tail(log), c)

\* The characters the summary lists: every participant, and whoever has an
\* entry in the log.
Summarised(s) ==
    (DOMAIN s.participants)
        \cup {s.actionLog[i].character : i \in 1..Len(s.actionLog)}

ActivitySummary(s) ==
    [c \in Summarised(s) |->
        [actions     |-> ActionCount(s.actionLog, c),
         last_action |-> LastActionAt(s.actionLog, c)]]

(***************************************************************************)
(* Command outcomes: the record after the command and what it returns.     *)
(***************************************************************************)
\* who: the character a NotYourTurn / NotExpired answer names;
\* secs: the remaining seconds a NotExpired answer reports.
Res(kind, who, secs) == [kind |-> kind, who |-> who, secs |-> secs]
Ok(s) == [st |-> s, res |-> Res("ok", NoOne, 0)]
Fail(s, kind, who) == [st |-> s, res |-> Res(kind, who, 0)]
Failures ==
    {"ValidationError", "NotYourTurn", "NarratorOnly", "NoConnection",
     "UnknownPosition", "StorageError", "StateInvariantViolation"}

(***************************************************************************)
(* StateInvariantViolation: a session in combat whose current-turn pointer *)
(* is not an index of the initiative sequence.  Every mutating command but *)
(* end-combat is refused until end-combat clears the condition.            *)
(***************************************************************************)
Broken(s) == s.mode = "combat" /\ ~HasTurn(s)

Unguarded(s, out) == out

Guarded(s, out) ==
    IF Broken(s) THEN Fail(s, "StateInvariantViolation", NoOne) ELSE out

(***************************************************************************)
(* init: a fresh session record.                                           *)
(***************************************************************************)
InitSession(s) == Guarded(s, Ok(NewSession))

(***************************************************************************)
(* join --viewer v --character c: v takes control of c.  A new row is      *)
(* created for an unclaimed character; for a claimed one the controller is *)
(* replaced and the idle tracking reset; the rest of the row is kept.      *)
(***************************************************************************)
NewRow(v) ==
    [controller |-> v, skipCount |-> 0, activityStatus |-> "active", cp |-> 0]

JoinKeepsSkips(s, v, c) ==
    Guarded(s, Ok([s EXCEPT !.participants =
        IF c \in DOMAIN @ THEN [@ EXCEPT ![c].controller = v]
        ELSE Put(@, c, NewRow(v))]))

Join(s, v, c) ==
    Guarded(s, Ok([s EXCEPT !.participants =
        IF c \in DOMAIN @
        THEN [@ EXCEPT ![c].controller = v,
                       ![c].skipCount = 0,
                       ![c].activityStatus = "active"]
        ELSE Put(@, c, NewRow(v))]))

(***************************************************************************)
(* leave --viewer v: the bot takes back every character v controlled.      *)
(***************************************************************************)
LeaveDropsController(s, v) ==
    Guarded(s, Ok([s EXCEPT !.participants =
        [c \in DOMAIN @ |->
            IF @[c].controller = v THEN [@[c] EXCEPT !.controller = NoOne]
            ELSE @[c]]]))

Leave(s, v) ==
    Guarded(s, Ok([s EXCEPT !.participants =
        [c \in DOMAIN @ |->
            IF @[c].controller = v THEN [@[c] EXCEPT !.controller = Bot]
            ELSE @[c]]]))

(***************************************************************************)
(* set-mode --mode m: switches the game mode; the initiative sequence, the *)
(* pointer and the deadline are left as they are.                          *)
(***************************************************************************)
SetModeClearsSequence(s, m) ==
    Guarded(s, Ok(IF m = "combat" THEN [s EXCEPT !.mode = m]
                  ELSE [s EXCEPT !.mode = m,
                                 !.initiative = <<>>,
                                 !.currentIndex = NoIndex,
                                 !.deadline = NoDeadline]))

SetModeDropsPointer(s, m) ==
    Guarded(s, Ok([s EXCEPT !.mode = m, !.currentIndex = NoIndex]))

SetMode(s, m) == Guarded(s, Ok([s EXCEPT !.mode = m]))

(***************************************************************************)
(* initiative --characters list --timeout t: enters combat with the list   *)
(* in the order given, the pointer on index 0 and the timer started.       *)
(***************************************************************************)
InitiativeKeepsPointer(s, list, t, clock) ==
    Guarded(s, Ok([s EXCEPT !.mode = "combat",
                            !.initiative = list,
                            !.currentIndex = IF @ = NoIndex THEN 0 ELSE @,
                            !.deadline = IF @ = NoDeadline THEN clock + t ELSE @,
                            !.timeout = t]))

Initiative(s, list, t, clock) ==
    Guarded(s, Ok([s EXCEPT !.mode = "combat",
                            !.initiative = list,
                            !.currentIndex = 0,
                            !.deadline = clock + t,
                            !.timeout = t]))

(***************************************************************************)
(* end-combat: back to rp, the sequence, pointer and timer cleared.        *)
(***************************************************************************)
EndCombat(s) ==
    Ok([s EXCEPT !.mode = "rp",
                 !.initiative = <<>>,
                 !.currentIndex = NoIndex,
                 !.deadline = NoDeadline,
                 !.timeout = 0])

(***************************************************************************)
(* The turn advance shared by next-turn and auto-advance: the pointer      *)
(* moves on modulo the sequence length and the timer restarts.             *)
(***************************************************************************)
AdvanceStopsAtEnd(s, clock) ==
    [s EXCEPT !.currentIndex =
                  IF @ + 1 < Len(s.initiative) THEN @ + 1 ELSE @,
              !.deadline = clock + s.timeout]

AdvanceStaleTimer(s, clock) ==
    [s EXCEPT !.currentIndex = (@ + 1) % Len(s.initiative)]

Advance(s, clock) ==
    [s EXCEPT !.currentIndex = (@ + 1) % Len(s.initiative),
              !.deadline = clock + s.timeout]

\* Whether the current character logged an action since its turn began.
ActedThisTurn(s) ==
    LastActionAt(s.actionLog, Current(s)) >= s.deadline - s.timeout

\* next-turn resets the skip counter of the character whose turn just ended
\* only if they acted.
ResetIfActed(s) ==
    IF Current(s) \in DOMAIN s.participants /\ ActedThisTurn(s)
    THEN [s EXCEPT !.participants[Current(s)].skipCount = 0]
    ELSE s

NextTurnCountsSkip(s, clock) ==
    Guarded(s,
        IF s.mode # "combat" THEN Fail(s, "ValidationError", NoOne)
        ELSE IF Current(s) \in DOMAIN s.participants /\ ~ActedThisTurn(s)
        THEN Ok(Advance([s EXCEPT !.participants[Current(s)].skipCount = @ + 1,
                                  !.participants[Current(s)].activityStatus =
                                      StatusOf(s.participants[Current(s)].skipCount + 1)],
                        clock))
        ELSE Ok(Advance(s, clock)))

NextTurn(s, clock) ==
    Guarded(s,
        IF s.mode # "combat" THEN Fail(s, "ValidationError", NoOne)
        ELSE Ok(Advance(ResetIfActed(s), clock)))

(***************************************************************************)
(* auto-advance: a pure comparison of the clock against the stored         *)
(* deadline.  Before expiry it reports the remaining seconds; at expiry it *)
(* counts a missed turn for the current character and advances.            *)
(***************************************************************************)
\* A missed turn: the skip counter goes up by one, the status follows it
\* and an AFK character is handed to the bot.
SkippedRowNoHandoff(row) ==
    LET n == row.skipCount + 1
    IN  [row EXCEPT !.skipCount = n, !.activityStatus = StatusOf(n)]

SkippedRow(row) ==
    LET n == row.skipCount + 1
    IN  [row EXCEPT !.controller = IF n >= AfkSkips THEN Bot ELSE @,
                    !.skipCount = n,
                    !.activityStatus = StatusOf(n)]

Skip(s, c) ==
    IF c \in DOMAIN s.participants
    THEN [s EXCEPT !.participants[c] = SkippedRow(@)]
    ELSE s

Expired(s, clock) == clock >= s.deadline

AutoAdvanceEager(s, clock) ==
    Guarded(s,
        IF s.mode # "combat" THEN [st |-> s, res |-> Res("NoTimer", NoOne, 0)]
        ELSE Ok(Advance(Skip(s, Current(s)), clock)))

AutoAdvanceAnyMode(s, clock) ==
    Guarded(s,
        IF ~HasTurn(s) THEN [st |-> s, res |-> Res("NoTimer", NoOne, 0)]
        ELSE IF ~Expired(s, clock)
        THEN [st |-> s, res |-> Res("NotExpired", Current(s), s.deadline - clock)]
        ELSE Ok(Advance(Skip(s, Current(s)), clock)))

AutoAdvanceNeedsRow(s, clock) ==
    Guarded(s,
        IF s.mode # "combat" THEN [st |-> s, res |-> Res("NoTimer", NoOne, 0)]
        ELSE IF ~Expired(s, clock) \/ Current(s) \notin DOMAIN s.participants
        THEN [st |-> s, res |-> Res("NotExpired", Current(s), s.deadline - clock)]
        ELSE Ok(Advance(Skip(s, Current(s)), clock)))

AutoAdvance(s, clock) ==
    Guarded(s,
        IF s.mode # "combat" THEN [st |-> s, res |-> Res("NoTimer", NoOne, 0)]
        ELSE IF ~Expired(s, clock)
        THEN [st |-> s, res |-> Res("NotExpired", Current(s), s.deadline - clock)]
        ELSE Ok(Advance(Skip(s, Current(s)), clock)))

(***************************************************************************)
(* log-action --viewer v --character c: turn validation by mode, then the  *)
(* entry is appended and the character's idle tracking reset.              *)
(***************************************************************************)
ControlsUnknown(s, v, c) ==
    c \notin DOMAIN s.participants \/ s.participants[c].controller = v

Controls(s, v, c) ==
    c \in DOMAIN s.participants /\ s.participants[c].controller = v

Entry(c, clock) == [character |-> c, timestamp |-> clock, summary |-> "acts"]

AcceptedPrepends(s, c, clock) ==
    [s EXCEPT !.actionLog = <<Entry(c, clock)>> \o @,
              !.participants =
                  IF c \in DOMAIN @
                  THEN [@ EXCEPT ![c].skipCount = 0,
                                 ![c].activityStatus = "active"]
                  ELSE @]

Accepted(s, c, clock) ==
    [s EXCEPT !.actionLog = Append(@, Entry(c, clock)),
              !.participants =
                  IF c \in DOMAIN @
                  THEN [@ EXCEPT ![c].skipCount = 0,
                                 ![c].activityStatus = "active"]
                  ELSE @]

MayActInCutscene(s, v, c) ==
    CASE s.mode = "cutscene" -> v = Narrator \/ Controls(s, v, c)
      [] s.mode = "combat"   -> c = Current(s) /\ Controls(s, v, c)
      [] OTHER               -> Controls(s, v, c)

MayActAnyViewer(s, v, c) ==
    CASE s.mode = "cutscene" -> v = Narrator
      [] s.mode = "combat"   -> c = Current(s)
      [] OTHER               -> Controls(s, v, c)

MayAct(s, v, c) ==
    CASE s.mode = "cutscene" -> v = Narrator
      [] s.mode = "combat"   -> c = Current(s) /\ Controls(s, v, c)
      [] OTHER               -> Controls(s, v, c)

Rejection(s) ==
    CASE s.mode = "cutscene" -> Fail(s, "NarratorOnly", NoOne)
      [] s.mode = "combat"   -> Fail(s, "NotYourTurn", Current(s))
      [] OTHER               -> Fail(s, "ValidationError", NoOne)

LogAction(s, v, c, clock) ==
    Guarded(s,
        IF MayAct(s, v, c) THEN Ok(Accepted(s, c, clock))
        ELSE Rejection(s))

(***************************************************************************)
(* Terrain: read-only data of the map authoring process.  Named positions  *)
(* per map with loaded terrain, the connections table (exit position of    *)
(* one map to entry position of another) and the default entry positions.  *)
(***************************************************************************)
LoadedMaps == {"cantina.svg", "streets.svg"}
\* A map image with no companion terrain file.
UnloadedMap == "tatooine.png"

Positions(map) ==
    CASE map = "cantina.svg" -> {"bar-stool-l3", "entrance"}
      [] map = "streets.svg" -> {"cantina-door", "checkpoint"}
      [] OTHER               -> {}

\* <<map, exit position, other map, entry position>>
Connections ==
    {<<"cantina.svg", "entrance", "streets.svg", "cantina-door">>,
     <<"streets.svg", "cantina-door", "cantina.svg", "entrance">>}

\* The declared default entry position of a map, NoOne when none is declared.
DefaultEntry(map) == IF map = "cantina.svg" THEN "entrance" ELSE NoOne

(***************************************************************************)
(* move-token: validates the map and the named position, then replaces the *)
(* character's token wholesale.                                            *)
(***************************************************************************)
Token(c, map, pos, color, hidden) ==
    [characterName |-> c, map |-> map, position |-> pos,
     color |-> color, hidden |-> hidden]

\* tokens[] is a list of token records; these are the entries of c in it.
TokensOf(s, c) ==
    {i \in 1..Len(s.tokens) : s.tokens[i].characterName = c}
HasToken(s, c) == TokensOf(s, c) # {}
TokenOf(s, c) == s.tokens[CHOOSE i \in TokensOf(s, c) : TRUE]

\* The list without the entries of c.
Without(tokens, c) ==
    SelectSeq(tokens, LAMBDA k : k.characterName # c)

ValidPlaceMapOnly(map, pos) == map \in LoadedMaps

ValidPlace(map, pos) == map \in LoadedMaps /\ pos \in Positions(map)

MoveTokenAppends(s, c, map, pos, color, hidden) ==
    Guarded(s,
        IF ~ValidPlace(map, pos) THEN Fail(s, "UnknownPosition", pos)
        ELSE Ok([s EXCEPT !.tokens =
                    Append(@, Token(c, map, pos, color, hidden))]))

MoveToken(s, c, map, pos, color, hidden) ==
    Guarded(s,
        IF ~ValidPlace(map, pos) THEN Fail(s, "UnknownPosition", pos)
        ELSE Ok([s EXCEPT !.tokens =
                    Append(Without(@, c), Token(c, map, pos, color, hidden))]))

\* remove-token: the character's token is taken out of the token list.
RemoveToken(s, c) ==
    Guarded(s,
        IF ~HasToken(s, c) THEN Fail(s, "ValidationError", NoOne)
        ELSE Ok([s EXCEPT !.tokens = Without(@, c)]))

\* set-map: a new map on the overlay; --clear-tokens empties the token set.
SetMap(s, image, clearTokens) ==
    Guarded(s,
        Ok([s EXCEPT !.activeMap = image,
                     !.tokens = IF clearTokens THEN <<>> ELSE @]))

\* switch-scene: changes which map the overlay displays, keeps all tokens.
SwitchSceneDropsOffMap(s, map) ==
    Guarded(s, Ok([s EXCEPT !.activeMap = map,
                            !.tokens = SelectSeq(@, LAMBDA k : k.map = map)]))

SwitchScene(s, map) == Guarded(s, Ok([s EXCEPT !.activeMap = map]))

(***************************************************************************)
(* transfer-token: moves a character's token to another map.  With no      *)
(* position given the landing position is auto-detected from the terrain   *)
(* connections: the entry position of a connection from the token's map to *)
(* the destination map, wherever on its map the token stands; else the     *)
(* default entry of the destination, else the command fails with           *)
(* NoConnection.                                                           *)
(***************************************************************************)
LandingsAtExit(tok, toMap) ==
    {k[4] : k \in {x \in Connections :
                      x[1] = tok.map /\ x[2] = tok.position /\ x[3] = toMap}}

Landings(tok, toMap) ==
    {k[4] : k \in {x \in Connections : x[1] = tok.map /\ x[3] = toMap}}

LandingNoDefault(tok, toMap) ==
    IF Landings(tok, toMap) # {} THEN CHOOSE p \in Landings(tok, toMap) : TRUE
    ELSE NoOne

Landing(tok, toMap) ==
    IF Landings(tok, toMap) # {} THEN CHOOSE p \in Landings(tok, toMap) : TRUE
    ELSE DefaultEntry(toMap)

\* The list with the entry of c put on map toMap at position pos; color
\* and hidden flag stay with the token.
Placed(tokens, c, toMap, pos) ==
    [i \in 1..Len(tokens) |->
        IF tokens[i].characterName = c
        THEN [tokens[i] EXCEPT !.map = toMap, !.position = pos]
        ELSE tokens[i]]

TransferToken(s, c, toMap, pos) ==
    Guarded(s,
        IF pos # NoOne /\ ~ValidPlace(toMap, pos)
        THEN Fail(s, "UnknownPosition", pos)
        ELSE IF ~HasToken(s, c) THEN Fail(s, "ValidationError", NoOne)
        ELSE IF pos # NoOne
        THEN Ok([s EXCEPT !.tokens = Placed(@, c, toMap, pos)])
        ELSE IF Landing(TokenOf(s, c), toMap) = NoOne
        THEN Fail(s, "NoConnection", NoOne)
        ELSE Ok([s EXCEPT !.tokens =
                    Placed(@, c, toMap, Landing(TokenOf(s, c), toMap))]))

(***************************************************************************)
(* Narrative bookkeeping: award-cp, update-scene, set-crawl, end-session.  *)
(***************************************************************************)
\* award-cp: Character Points are added to the character's row.
AwardCp(s, c, points) ==
    Guarded(s,
        IF c \notin DOMAIN s.participants THEN Fail(s, "ValidationError", NoOne)
        ELSE Ok([s EXCEPT !.participants[c].cp = @ + points]))

\* update-scene: the narrative pointer of the session.
UpdateScene(s, scene) == Guarded(s, Ok([s EXCEPT !.scene = scene]))

\* set-crawl: the opening crawl is written once per session.
SetCrawl(s, text) ==
    Guarded(s,
        IF s.crawlText # NoOne THEN Fail(s, "ValidationError", NoOne)
        ELSE Ok([s EXCEPT !.crawlText = text]))

\* end-session: the record is archived, not deleted.
EndSession(s) == Guarded(s, Ok([s EXCEPT !.archived = TRUE]))

(***************************************************************************)
(* The State Store: mutate applies the command to a copy of the record and *)
(* persists the result by write-to-temporary-then-rename.  A failed write  *)
(* rolls the in-memory record back to the last persisted snapshot and the  *)
(* caller gets StorageError; a rejected command writes nothing.            *)
(***************************************************************************)
MutateNoRollback(s, d, healthy, out) ==
    IF out.res.kind \in Failures
    THEN [state |-> s, disk |-> d, result |-> out.res]
    ELSE IF out.res.kind # "ok"
    THEN [state |-> s, disk |-> d, result |-> out.res]
    ELSE IF healthy
    THEN [state |-> out.st, disk |-> out.st, result |-> out.res]
    ELSE [state |-> out.st, disk |-> d,
          result |-> Res("StorageError", NoOne, 0)]

\* s: the record in memory, d: the last persisted snapshot, healthy: whether
\* the storage write goes through, out: what the command made of its copy.
Mutate(s, d, healthy, out) ==
    IF out.res.kind \in Failures
    THEN [state |-> s, disk |-> d, result |-> out.res]
    ELSE IF out.res.kind # "ok"
    THEN [state |-> s, disk |-> d, result |-> out.res]
    ELSE IF healthy
    THEN [state |-> out.st, disk |-> out.st, result |-> out.res]
    ELSE [state |-> d, disk |-> d, result |-> Res("StorageError", NoOne, 0)]

\* What the store answers and leaves behind for the outcome out of a command
\* run on the current record.
After(out) == Mutate(state, disk, storageOk, out)

Persist(out) ==
    /\ state' = After(out).state
    /\ disk' = After(out).disk
    /\ result' = After(out).result

\* A command dispatched on its own: nothing else is waiting at the store.
Commit(out) ==
    /\ Persist(out)
    /\ UNCHANGED <<storageOk, now, queue, seen>>
    /\ UNCHANGED hostVars

\* status, check-timer, check-idle, activity-summary: pure reads, answered
\* from the record in memory; nothing is written.
Reads == {"status", "check-timer", "check-idle", "activity-summary"}

Read(q) ==
    /\ result' = Res("ok", NoOne, 0)
    /\ UNCHANGED <<state, disk, storageOk, now, queue, seen>>
    /\ UNCHANGED hostVars

(***************************************************************************)
(* One action per command, its arguments drawn from the input sets.        *)
(***************************************************************************)
\* join arguments tried: any controller claims the player character Kira;
\* the NPC Stormtrooper is only ever run by the bot.
JoinInputs ==
    {p \in Controllers \X Characters : p[2] = "Kira" \/ p[1] = Bot}
\* log-action arguments tried: every caller, acting as the player character.
LogInputs == Callers \X {"Kira"}

InitStep == Commit(InitSession(state))
JoinStep(v, c) == Commit(Join(state, v, c))
LeaveStep(v) == Commit(Leave(state, v))
SetModeStep(m) == Commit(SetMode(state, m))
InitiativeStep(list, t) == Commit(Initiative(state, list, t, now))
NextTurnStep == Commit(NextTurn(state, now))
EndCombatStep == Commit(EndCombat(state))
AutoAdvanceStep == Commit(AutoAdvance(state, now))
LogActionStep(v, c) ==
    /\ Len(state.actionLog) < MaxLog
    /\ Commit(LogAction(state, v, c, now))

CmdInit == InitStep
CmdJoin == \E p \in JoinInputs : JoinStep(p[1], p[2])
CmdLeave == \E v \in Controllers : LeaveStep(v)
CmdSetMode == \E m \in Modes : SetModeStep(m)
CmdInitiative ==
    \E list \in InitiativeLists, t \in Timeouts : InitiativeStep(list, t)
CmdNextTurn == NextTurnStep
CmdEndCombat == EndCombatStep
CmdAutoAdvance == AutoAdvanceStep
CmdLogAction == \E p \in LogInputs : LogActionStep(p[1], p[2])

\* The wall clock advances by one second.
Tick ==
    /\ now < MaxTime
    /\ now' = now + 1
    /\ UNCHANGED <<state, disk, storageOk, result, queue, seen>>
    /\ UNCHANGED hostVars

Init ==
    /\ state = NewSession
    /\ disk = NewSession
    /\ storageOk = TRUE
    /\ now = 0
    /\ result = Res("ok", NoOne, 0)
    /\ queue = <<>>
    /\ seen = <<>>
    /\ envFile = NoFile
    /\ tmpFile = NoFile
    /\ update = Idle
    /\ processEnv = [k \in EnvKeys |-> Undefined]
    /\ overlap = [c \in PairCalls |-> NotCalled]
    /\ lockFile = NoLockFile
    /\ flocks = [i \in Inodes |-> NoOne]
    /\ instances = [p \in Instances |-> NotStarted]
    /\ manager = NewManager
    /\ callers = [c \in Callers2 |-> NoCall]
    /\ removers = [h \in Handlers |-> "none"]
    /\ delivered = NoMessage

Next ==
    \/ CmdInit
    \/ CmdJoin
    \/ CmdLeave
    \/ CmdSetMode
    \/ CmdInitiative
    \/ CmdNextTurn
    \/ CmdEndCombat
    \/ CmdAutoAdvance
    \/ CmdLogAction
    \/ Tick

Spec == Init /\ [][Next]_vars

(***************************************************************************)
(* The whole command surface over an unreliable storage layer.  One game   *)
(* night: alice plays Kira, who fights alone; the storage layer fails and  *)
(* recovers at any moment.  The clock stands still (the timer is the       *)
(* subject of Spec).                                                       *)
(***************************************************************************)
SurfaceJoins == {<<"alice", "Kira">>}
SurfaceLists == {<<"Kira">>}
SurfaceTimeouts == {1}
SurfaceLogs == {"alice", "renn", Narrator} \X {"Kira"}
MoveInputs ==
    {<<"Kira", "cantina.svg", "bar-stool-l3", "blue", FALSE>>,
     <<"Kira", "cantina.svg", "entrance", "blue", FALSE>>,
     <<"Kira", "cantina.svg", "Entrance", "blue", FALSE>>,
     <<"Kira", UnloadedMap, "entrance", "blue", FALSE>>}
TransferInputs ==
    {<<"Kira", "streets.svg", NoOne>>,
     <<"Kira", "cantina.svg", NoOne>>,
     <<"Kira", "streets.svg", "checkpoint">>,
     <<"Kira", "streets.svg", "nonexistent-spot">>}
SetMapInputs == {"cantina.svg"} \X BOOLEAN
AwardInputs == {<<"Kira", 1>>}
SceneInputs == {"Imperial Checkpoint"}
CrawlInputs == {"Escape from Mos Eisley"}

MoveTokenStep(c, map, pos, color, hidden) ==
    Commit(MoveToken(state, c, map, pos, color, hidden))
RemoveTokenStep(c) == Commit(RemoveToken(state, c))
SetMapStep(image, clearTokens) == Commit(SetMap(state, image, clearTokens))
SwitchSceneStep(map) == Commit(SwitchScene(state, map))
TransferTokenStep(c, toMap, pos) == Commit(TransferToken(state, c, toMap, pos))
AwardCpStep(c, points) ==
    /\ c \in DOMAIN state.participants => state.participants[c].cp < MaxCp
    /\ Commit(AwardCp(state, c, points))
UpdateSceneStep(scene) == Commit(UpdateScene(state, scene))
SetCrawlStep(text) == Commit(SetCrawl(state, text))
EndSessionStep == Commit(EndSession(state))

SurfInit == InitStep
SurfJoin == \E p \in SurfaceJoins : JoinStep(p[1], p[2])
SurfLeave == \E p \in SurfaceJoins : LeaveStep(p[1])
SurfSetMode == \E m \in Modes : SetModeStep(m)
SurfInitiative ==
    \E list \in SurfaceLists, t \in SurfaceTimeouts : InitiativeStep(list, t)
SurfNextTurn == NextTurnStep
SurfEndCombat == EndCombatStep
SurfAutoAdvance == AutoAdvanceStep
SurfLogAction == \E p \in SurfaceLogs : LogActionStep(p[1], p[2])
CmdMoveToken ==
    \E p \in MoveInputs : MoveTokenStep(p[1], p[2], p[3], p[4], p[5])
CmdRemoveToken == \E c \in Characters : RemoveTokenStep(c)
CmdSetMap == \E p \in SetMapInputs : SetMapStep(p[1], p[2])
CmdSwitchScene == \E map \in LoadedMaps : SwitchSceneStep(map)
CmdTransferToken ==
    \E p \in TransferInputs : TransferTokenStep(p[1], p[2], p[3])
CmdAwardCp == \E p \in AwardInputs : AwardCpStep(p[1], p[2])
CmdUpdateScene == \E scene \in SceneInputs : UpdateSceneStep(scene)
CmdSetCrawl == \E text \in CrawlInputs : SetCrawlStep(text)
CmdEndSession == EndSessionStep
CmdRead == \E q \in Reads : Read(q)

\* The storage layer stops accepting writes, and becomes healthy again.
StorageFails ==
    /\ storageOk
    /\ storageOk' = FALSE
    /\ UNCHANGED <<state, disk, now, result, queue, seen>>
    /\ UNCHANGED hostVars

StorageRecovers ==
    /\ ~storageOk
    /\ storageOk' = TRUE
    /\ UNCHANGED <<state, disk, now, result, queue, seen>>
    /\ UNCHANGED hostVars

NextSurface ==
    \/ SurfInit
    \/ SurfJoin
    \/ SurfLeave
    \/ SurfSetMode
    \/ SurfInitiative
    \/ SurfNextTurn
    \/ SurfEndCombat
    \/ SurfAutoAdvance
    \/ SurfLogAction
    \/ CmdMoveToken
    \/ CmdRemoveToken
    \/ CmdSetMap
    \/ CmdSwitchScene
    \/ CmdTransferToken
    \/ CmdAwardCp
    \/ CmdUpdateScene
    \/ CmdSetCrawl
    \/ CmdEndSession
    \/ CmdRead
    \/ StorageFails
    \/ StorageRecovers

SpecSurface == Init /\ [][NextSurface]_vars

\* What each command of the surface makes of the record s at time clock,
\* over the arguments tried.
SurfaceOutcomes(s, clock) ==
    {InitSession(s), NextTurn(s, clock), EndCombat(s), AutoAdvance(s, clock),
     EndSession(s)}
    \cup {Join(s, p[1], p[2]) : p \in SurfaceJoins}
    \cup {Leave(s, p[1]) : p \in SurfaceJoins}
    \cup {SetMode(s, m) : m \in Modes}
    \cup {Initiative(s, p[1], p[2], clock) :
             p \in SurfaceLists \X SurfaceTimeouts}
    \cup {LogAction(s, p[1], p[2], clock) : p \in SurfaceLogs}
    \cup {MoveToken(s, p[1], p[2], p[3], p[4], p[5]) : p \in MoveInputs}
    \cup {RemoveToken(s, c) : c \in Characters}
    \cup {SetMap(s, p[1], p[2]) : p \in SetMapInputs}
    \cup {SwitchScene(s, map) : map \in LoadedMaps}
    \cup {TransferToken(s, p[1], p[2], p[3]) : p \in TransferInputs}
    \cup {AwardCp(s, p[1], p[2]) : p \in AwardInputs}
    \cup {UpdateScene(s, scene) : scene \in SceneInputs}
    \cup {SetCrawl(s, text) : text \in CrawlInputs}

(***************************************************************************)
(* Concurrent callers.  Chat-command dispatches and the periodic timer     *)
(* check submit their mutate calls at any moment; the State Store queues   *)
(* them and applies them one at a time, in arrival order.                  *)
(***************************************************************************)
Call(cmd, v, c, t) ==
    [cmd |-> cmd, viewer |-> v, character |-> c, timeout |-> t]

QueueCalls ==
    {Call("join", "alice", "Kira", 0),
     Call("join", "renn", "Kira", 0),
     Call("leave", "alice", NoOne, 0),
     Call("initiative", NoOne, "Kira", 1),
     Call("log-action", "alice", "Kira", 0),
     Call("auto-advance", NoOne, NoOne, 0),
     Call("end-combat", NoOne, NoOne, 0)}

\* The command a queued call stands for, run on record s at time clock;
\* the fight called is the named character against the NPC Stormtrooper.
Run(s, call, clock) ==
    CASE call.cmd = "join" -> Join(s, call.viewer, call.character)
      [] call.cmd = "leave" -> Leave(s, call.viewer)
      [] call.cmd = "initiative" ->
            Initiative(s, <<call.character, "Stormtrooper">>, call.timeout,
                       clock)
      [] call.cmd = "log-action" ->
            LogAction(s, call.viewer, call.character, clock)
      [] call.cmd = "auto-advance" -> AutoAdvance(s, clock)
      [] OTHER -> EndCombat(s)

\* The call the store takes next, and the calls that keep waiting.
NextCallNewest(q) == q[Len(q)]

NextCall(q) == Head(q)
Rest(q) == Tail(q)

\* Number of log-action calls waiting in q.
RECURSIVE LogCalls(_)
LogCalls(q) ==
    IF q = <<>> THEN 0
    ELSE (IF Head(q).cmd = "log-action" THEN 1 ELSE 0) + LogCalls(Tail(q))

\* A caller submits a mutate call: it joins the end of the queue.
Submit(call) ==
    /\ Len(queue) < MaxQueue
    /\ call.cmd = "log-action" =>
            Len(state.actionLog) + LogCalls(queue) < MaxLog
    /\ queue' = Append(queue, call)
    /\ UNCHANGED <<state, disk, storageOk, now, result, seen>>
    /\ UNCHANGED hostVars

\* The serialization point: one waiting call is applied as a whole.
Apply ==
    /\ queue # <<>>
    /\ Persist(Run(state, NextCall(queue), now))
    /\ queue' = Rest(queue)
    /\ UNCHANGED <<storageOk, now, seen>>
    /\ UNCHANGED hostVars

CmdSubmit == \E call \in QueueCalls : Submit(call)

NextQueue ==
    \/ CmdSubmit
    \/ Apply
    \/ CmdRead
    \/ Tick

SpecQueue == Init /\ [][NextQueue]_vars

(***************************************************************************)
(* The persisted record under failure.  The record file is replaced by     *)
(* write-to-temporary-then-rename: a write that fails, or a process that   *)
(* dies while the temporary file is being written, never touches the       *)
(* record file itself.                                                     *)
(***************************************************************************)
\* A record written in place and cut off half way: the participants of the
\* new record d2 over the rest of the old record d.
Torn(d, d2) == [d EXCEPT !.participants = d2.participants,
                         !.tokens = d2.tokens]

CrashedWriteInPlace(d, d2) == Torn(d, d2)

\* The record file after the process died while writing d2 over d: only
\* the temporary file was written, the rename never happened.
CrashedWrite(d, d2) == d

\* The process dies in the middle of the write of a command that succeeded
\* on its copy; the caller gets no answer and the next process starts from
\* the record file.
Crash ==
    \E out \in SurfaceOutcomes(state, now) :
        /\ out.res.kind = "ok"
        /\ disk' = CrashedWrite(disk, out.st)
        /\ state' = disk'
        /\ result' = Res("NoAnswer", NoOne, 0)
        /\ UNCHANGED <<storageOk, now, queue, seen>>
        /\ UNCHANGED hostVars

NextStore ==
    \/ SurfJoin
    \/ SurfLeave
    \/ SurfSetMode
    \/ SurfInitiative
    \/ SurfEndCombat
    \/ SurfLogAction
    \/ CmdMoveToken
    \/ CmdRead
    \/ StorageFails
    \/ StorageRecovers
    \/ Crash

SpecStore == Init /\ [][NextStore]_vars

(***************************************************************************)
(* The action log and its readers.  Within one session (no init) alice     *)
(* plays Kira, in rp and in fights whose timer runs out; the overlay       *)
(* renderer and the narrator's context builder read the record file at any *)
(* moment, also while a write is cut off by a crash, and keep what they    *)
(* read.                                                                   *)
(***************************************************************************)
\* join and log-action arguments of the session: alice plays Kira, the bot
\* runs the Stormtrooper; renn and the narrator also try to act for Kira.
LogJoins == {<<"alice", "Kira">>, <<Bot, "Stormtrooper">>}
LogWriters == SurfaceLogs \cup {<<Bot, "Stormtrooper">>}

LogAppendStep(v, c) ==
    /\ Len(state.actionLog) < MaxEntries
    /\ Commit(LogAction(state, v, c, now))

LogJoin == \E p \in LogJoins : JoinStep(p[1], p[2])
LogAppend == \E p \in LogWriters : LogAppendStep(p[1], p[2])

\* activity-summary answers with the summary of the record in memory.
ActivitySummaryStep ==
    /\ result' = [kind |-> "ok", who |-> NoOne, secs |-> 0,
                  summary |-> ActivitySummary(state)]
    /\ UNCHANGED <<state, disk, storageOk, now, queue, seen>>
    /\ UNCHANGED hostVars

\* A consumer reads the action log out of the record file.
Snapshot ==
    /\ seen' = disk.actionLog
    /\ UNCHANGED <<state, disk, storageOk, now, result, queue>>
    /\ UNCHANGED hostVars

NextLog ==
    \/ LogJoin
    \/ SurfInitiative
    \/ SurfEndCombat
    \/ SurfAutoAdvance
    \/ LogAppend
    \/ ActivitySummaryStep
    \/ Snapshot
    \/ Tick
    \/ Crash

SpecLog == Init /\ [][NextLog]_vars

(***************************************************************************)
(* The turn timer left to itself.  Nobody logs an action and the narrator  *)
(* never calls next-turn: the only thing that moves the turn is the        *)
(* periodic caller of auto-advance (show_flow), which keeps calling while  *)
(* the wall clock keeps running.  alice has claimed Kira or not, the       *)
(* Stormtrooper is the bot's or an NPC name without a participant row.     *)
(* The clock is followed for MaxLive seconds.                              *)
(***************************************************************************)
TimerTick ==
    /\ now < MaxLive
    /\ now' = now + 1
    /\ UNCHANGED <<state, disk, storageOk, result, queue, seen>>
    /\ UNCHANGED hostVars

TimerInitiative ==
    \E list \in InitiativeLists, t \in Timeouts : InitiativeStep(list, t)

NextTimer ==
    \/ LogJoin
    \/ TimerInitiative
    \/ SurfEndCombat
    \/ AutoAdvanceStep
    \/ TimerTick

SpecTimer ==
    /\ Init
    /\ [][NextTimer]_vars
    /\ WF_vars(TimerTick)
    /\ WF_vars(AutoAdvanceStep)

(***************************************************************************)
(* The map table.  Two tokens, Kira's and the Stormtrooper's, are placed,  *)
(* moved between the cantina and the streets and removed while a fight     *)
(* goes on; the positions tried include misspelt and unknown ones.         *)
(***************************************************************************)
MapMoves ==
    {<<"Kira", "cantina.svg", "bar-stool-l3", "blue", FALSE>>,
     <<"Kira", "cantina.svg", "entrance", "blue", FALSE>>,
     <<"Kira", "cantina.svg", "Entrance", "blue", FALSE>>,
     <<"Kira", "cantina.svg", "nonexistent-spot", "blue", FALSE>>,
     <<"Kira", "cantina.svg", "checkpoint", "blue", FALSE>>,
     <<"Kira", UnloadedMap, "entrance", "blue", FALSE>>,
     <<"Stormtrooper", "streets.svg", "checkpoint", "red", TRUE>>,
     <<"Stormtrooper", "cantina.svg", "entrance", "red", FALSE>>}
MapTransfers ==
    {<<"Kira", "streets.svg", NoOne>>,
     <<"Kira", "cantina.svg", NoOne>>,
     <<"Kira", "streets.svg", "checkpoint">>,
     <<"Kira", "streets.svg", "Checkpoint">>,
     <<"Kira", "streets.svg", "bar-stool-l3">>,
     <<"Kira", UnloadedMap, "entrance">>,
     <<"Stormtrooper", "cantina.svg", NoOne>>}
MapScenes == LoadedMaps \cup {UnloadedMap}

MapMoveToken ==
    \E p \in MapMoves : MoveTokenStep(p[1], p[2], p[3], p[4], p[5])
MapTransferToken ==
    \E p \in MapTransfers : TransferTokenStep(p[1], p[2], p[3])
MapSwitchScene == \E map \in MapScenes : SwitchSceneStep(map)

NextMap ==
    \/ SurfJoin
    \/ SurfSetMode
    \/ SurfInitiative
    \/ SurfNextTurn
    \/ SurfEndCombat
    \/ MapMoveToken
    \/ CmdRemoveToken
    \/ CmdSetMap
    \/ MapSwitchScene
    \/ MapTransferToken

SpecMap == Init /\ [][NextMap]_vars

(***************************************************************************)
(* The .env writer of the gateway (infra/dotenv-write.ts).  A text is a    *)
(* sequence of characters; a run of ordinary characters (a variable name,  *)
(* a token) stands as one element, the characters the code looks at        *)
(* (newline, blank, =, #, quotes, backslash) each as their own.            *)
(***************************************************************************)
Newline == "\n"
Blank == " "
Quote == "\""
Backslash == "\\"

\* content.split("\n")
RECURSIVE Split(_)
Split(text) ==
    IF \A i \in 1..Len(text) : text[i] # Newline THEN <<text>>
    ELSE LET i == CHOOSE k \in 1..Len(text) :
                      /\ text[k] = Newline
                      /\ \A j \in 1..(k - 1) : text[j] # Newline
         IN  <<SubSeq(text, 1, i - 1)>> \o Split(SubSeq(text, i + 1, Len(text)))

\* lines.join("\n")
RECURSIVE JoinLines(_)
JoinLines(lines) ==
    IF lines = <<>> THEN <<>>
    ELSE IF Len(lines) = 1 THEN lines[1]
    ELSE lines[1] \o <<Newline>> \o JoinLines(Tail(lines))

\* line.trim()
RECURSIVE Trim(_)
Trim(line) ==
    IF line = <<>> THEN line
    ELSE IF Head(line) \in {Blank, Newline} THEN Trim(Tail(line))
    ELSE IF line[Len(line)] \in {Blank, Newline}
    THEN Trim(SubSeq(line, 1, Len(line) - 1))
    ELSE line

\* line.indexOf(ch), counted from 0; -1 when ch does not occur.
IndexOf(line, ch) ==
    IF \A i \in 1..Len(line) : line[i] # ch THEN -1
    ELSE (CHOOSE k \in 1..Len(line) :
              line[k] = ch /\ \A j \in 1..(k - 1) : line[j] # ch) - 1

\* The key parseDotEnvLines finds on a line, <<>> when it finds none
\* (a blank line, a comment, no = or nothing before it).
KeyOf(raw) ==
    LET line == Trim(raw)
    IN  IF line = <<>> \/ Head(line) = "#" THEN <<>>
        ELSE IF IndexOf(line, "=") > 0
        THEN Trim(SubSeq(line, 1, IndexOf(line, "=")))
        ELSE <<>>

\* keyIndex.get(key): the position of the last line that carries the key,
\* 0 for undefined.
KeyIndex(lines, key) ==
    IF \A i \in 1..Len(lines) : KeyOf(lines[i]) # key THEN 0
    ELSE CHOOSE i \in 1..Len(lines) :
            /\ KeyOf(lines[i]) = key
            /\ \A j \in (i + 1)..Len(lines) : KeyOf(lines[j]) # key

\* formatEnvLine: values with white space, #, quotes or a backslash are
\* wrapped in double quotes, backslashes and double quotes escaped.
NeedsQuoting(value) ==
    \E i \in 1..Len(value) :
        value[i] \in {Blank, Newline, "#", Quote, "'", Backslash}

RECURSIVE Escaped(_)
Escaped(value) ==
    IF value = <<>> THEN <<>>
    ELSE (IF Head(value) \in {Backslash, Quote}
          THEN <<Backslash, Head(value)>> ELSE <<Head(value)>>)
         \o Escaped(Tail(value))

FormatEnvLine(key, value) ==
    IF NeedsQuoting(value)
    THEN key \o <<"=", Quote>> \o Escaped(value) \o <<Quote>>
    ELSE key \o <<"=">> \o value

\* The update loop: parsed are the lines as parsed before the loop (the
\* key index is built once and not extended by the loop).
RECURSIVE Updated(_, _, _)
Updated(lines, parsed, updates) ==
    IF updates = <<>> THEN lines
    ELSE LET u == Head(updates)
             newLine == FormatEnvLine(u.key, u.value)
         IN  Updated(IF KeyIndex(parsed, u.key) # 0
                     THEN [lines EXCEPT ![KeyIndex(parsed, u.key)] = newLine]
                     ELSE Append(lines, newLine),
                     parsed, Tail(updates))

\* text.replace(/\n*$/, "\n"): the newlines at the end become exactly one.
RECURSIVE EndWithNewline(_)
EndWithNewline(text) ==
    IF text # <<>> /\ text[Len(text)] = Newline
    THEN EndWithNewline(SubSeq(text, 1, Len(text) - 1))
    ELSE text \o <<Newline>>

\* What updateDotEnvFile writes for the content it read.
Output(content, updates) ==
    EndWithNewline(JoinLines(Updated(Split(content), Split(content), updates)))

(***************************************************************************)
(* Twitch access token resolution (extensions/twitch/src/token.ts).        *)
(***************************************************************************)
DefaultAccountId == <<"default">>
AccessKey == "OPENCLAW_TWITCH_ACCESS_TOKEN"
RefreshKey == "OPENCLAW_TWITCH_REFRESH_TOKEN"

\* normalizeTwitchToken: nothing for an absent or blank token, else the
\* trimmed token with the oauth: prefix put in front unless it is there.
NormalizeTwitchToken(raw) ==
    IF raw = Undefined \/ raw = <<>> THEN Undefined
    ELSE IF Trim(raw) = <<>> THEN Undefined
    ELSE IF Head(Trim(raw)) = "oauth:" THEN Trim(raw)
    ELSE <<"oauth:">> \o Trim(raw)

\* normalizeAccountId (routing/session-key): an absent or blank id is the
\* default account.
NormalizeAccountId(id) ==
    IF id = Undefined \/ Trim(id) = <<>> THEN DefaultAccountId ELSE Trim(id)

\* accounts?.[id]?.accessToken
AccountToken(cfg, id) ==
    IF id \in DOMAIN cfg.accounts THEN cfg.accounts[id] ELSE Undefined

\* a || b on token strings
OrElse(a, b) == IF a = Undefined \/ a = <<>> THEN b ELSE a

ResolveConfigFirst(cfg, accountIdOpt, envTokenOpt, env) ==
    LET accountId == NormalizeAccountId(accountIdOpt)
        envToken ==
            NormalizeTwitchToken(IF envTokenOpt # Undefined THEN envTokenOpt
                                 ELSE env[AccessKey])
        token ==
            IF accountId = DefaultAccountId
            THEN NormalizeTwitchToken(
                     OrElse(cfg.accessToken, AccountToken(cfg, accountId)))
            ELSE NormalizeTwitchToken(AccountToken(cfg, accountId))
    IN  IF token # Undefined THEN [token |-> token, source |-> "config"]
        ELSE IF accountId = DefaultAccountId /\ envToken # Undefined
        THEN [token |-> envToken, source |-> "env"]
        ELSE [token |-> <<>>, source |-> "none"]

\* resolveTwitchToken(cfg, {accountId, envToken}) under process.env = env.
ResolveTwitchToken(cfg, accountIdOpt, envTokenOpt, env) ==
    LET accountId == NormalizeAccountId(accountIdOpt)
        envToken ==
            NormalizeTwitchToken(IF envTokenOpt # Undefined THEN envTokenOpt
                                 ELSE env[AccessKey])
        token ==
            IF accountId = DefaultAccountId
            THEN NormalizeTwitchToken(
                     OrElse(cfg.accessToken, AccountToken(cfg, accountId)))
            ELSE NormalizeTwitchToken(AccountToken(cfg, accountId))
    IN  IF accountId = DefaultAccountId /\ envToken # Undefined
        THEN [token |-> envToken, source |-> "env"]
        ELSE IF token # Undefined THEN [token |-> token, source |-> "config"]
        ELSE [token |-> <<>>, source |-> "none"]

(***************************************************************************)
(* The host at work.  updateDotEnvFile runs in steps (read, write the      *)
(* temporary file, rename) that other processes see and that can fail; the *)
(* onRefresh callback of the Twitch auth provider is its caller and sets   *)
(* process.env once the file is written.                                   *)
(***************************************************************************)
\* A KEY=value line and a text made of lines, each ended by a newline.
Line(key, value) == <<key, "=">> \o value
RECURSIVE Text(_)
Text(lines) ==
    IF lines = <<>> THEN <<>>
    ELSE Head(lines) \o <<Newline>> \o Text(Tail(lines))

\* The .env files the host starts with.
EnvContents ==
    {NoFile,
     <<>>,
     Line(AccessKey, <<"t0">>),
     Text(<<<<"#", Blank, "Twitch">>, Line(AccessKey, <<"t0">>),
            Line(RefreshKey, <<"r0">>)>>),
     Text(<<Line(AccessKey, <<"t0">>), <<>>, Line("OLLAMA_HOST", <<"x">>)>>),
     Text(<<Line("OLLAMA_HOST", <<"x">>), <<>>>>),
     Text(<<Line(AccessKey, <<"old">>), Line(AccessKey, <<"t0">>)>>),
     Text(<<<<Blank, AccessKey, Blank, "=", Blank, "t0">>,
            <<"#">> \o Line(AccessKey, <<"zz">>)>>)}

\* The tokens a refresh hands to the callback.
RefreshedTokens ==
    {[accessToken |-> <<"t1">>, refreshToken |-> <<"r1">>],
     [accessToken |-> <<"oauth:", "t2">>, refreshToken |-> Undefined]}

\* The account ids the auth provider was created with.
AccountIds == {Undefined, DefaultAccountId, <<"alt">>}

\* Update lists of other callers: a value that needs quoting, a plain one,
\* the same new key twice.
Entry2(key, value) == [key |-> <<key>>, value |-> value]
UpdateLists ==
    {<<Entry2("OLLAMA_HOST", <<"a", Blank, Quote, "b">>)>>,
     <<Entry2("OLLAMA_HOST", <<"y">>)>>,
     <<Entry2("TZ", <<"1">>), Entry2("TZ", <<"2">>)>>}

\* The updates the callback builds from the refreshed token.
RefreshUpdates(token) ==
    <<Entry2(AccessKey, token.accessToken)>>
        \o (IF token.refreshToken # Undefined
            THEN <<Entry2(RefreshKey, token.refreshToken)>> ELSE <<>>)

\* updateDotEnvFile is called with the updates; token is the refreshed
\* token and accountId the callback's account when the caller is the
\* onRefresh callback.
\* The call record at rest again, the calls made so far counted.
Returned(u) == [Idle EXCEPT !.calls = u.calls]

CallUpdate(updates, token, accountId) ==
    /\ update.pc = "idle"
    /\ update.calls < MaxCalls
    /\ update' = [Idle EXCEPT !.pc = "called", !.updates = updates,
                              !.token = token, !.account = accountId,
                              !.calls = update.calls + 1]
    /\ UNCHANGED <<envFile, tmpFile, processEnv>>
    /\ UNCHANGED <<overlap, besideEnv>>

OnRefreshAnyAccount(accountId, token) ==
    /\ update.pc = "idle"
    /\ CallUpdate(RefreshUpdates(token), token, accountId)

\* onRefresh: only the default account persists its token.
OnRefresh(accountId, token) ==
    /\ update.pc = "idle"
    /\ IF accountId = Undefined \/ accountId = DefaultAccountId
       THEN CallUpdate(RefreshUpdates(token), token, accountId)
       ELSE UNCHANGED vars

\* readFile (a missing file reads as the empty text), then the new
\* content is computed.
ReadEnv ==
    /\ update.pc = "called"
    /\ LET content == IF envFile = NoFile THEN <<>> ELSE envFile
       IN  update' = [update EXCEPT !.pc = "read", !.content = content,
                                    !.output = Output(content, update.updates)]
    /\ UNCHANGED <<envFile, tmpFile, processEnv>>
    /\ UNCHANGED <<overlap, besideEnv>>

\* readFile fails with something else than ENOENT: the call throws.
ReadFails ==
    /\ update.pc = "called"
    /\ envFile # NoFile
    /\ update' = Returned(update)
    /\ UNCHANGED <<envFile, tmpFile, processEnv>>
    /\ UNCHANGED <<overlap, besideEnv>>

\* writeFile(tmp, output)
WriteTmp ==
    /\ update.pc = "read"
    /\ tmpFile' = update.output
    /\ update' = [update EXCEPT !.pc = "written"]
    /\ UNCHANGED <<envFile, processEnv>>
    /\ UNCHANGED <<overlap, besideEnv>>

\* Where a write of text is cut off: before the first character, half way
\* and before the last character.
CutPoints(text) == {0, Len(text) \div 2, Len(text) - 1}

WriteCutOffInPlace ==
    /\ update.pc = "read"
    /\ \E n \in CutPoints(update.output) :
            envFile' = SubSeq(update.output, 1, n)
    /\ update' = Returned(update)
    /\ UNCHANGED <<tmpFile, processEnv>>
    /\ UNCHANGED <<overlap, besideEnv>>

\* writeFile fails half way (disk full, process killed): part of the
\* output is in the temporary file and the call throws.
WriteCutOff ==
    /\ update.pc = "read"
    /\ \E n \in CutPoints(update.output) :
            tmpFile' = SubSeq(update.output, 1, n)
    /\ update' = Returned(update)
    /\ UNCHANGED <<envFile, processEnv>>
    /\ UNCHANGED <<overlap, besideEnv>>

\* rename(tmp, envPath)
Rename ==
    /\ update.pc = "written"
    /\ envFile' = tmpFile
    /\ tmpFile' = NoFile
    /\ update' = [update EXCEPT !.pc = "renamed"]
    /\ UNCHANGED processEnv
    /\ UNCHANGED <<overlap, besideEnv>>

RenameFailsSetsEnv ==
    /\ update.pc = "written"
    /\ update' = Returned(update)
    /\ processEnv' =
          IF update.token = NoToken THEN processEnv
          ELSE [processEnv EXCEPT ![AccessKey] = update.token.accessToken]
    /\ UNCHANGED <<envFile, tmpFile>>
    /\ UNCHANGED <<overlap, besideEnv>>

\* rename fails: the call throws, the temporary file stays behind.
RenameFails ==
    /\ update.pc = "written"
    /\ update' = Returned(update)
    /\ UNCHANGED <<envFile, tmpFile, processEnv>>
    /\ UNCHANGED <<overlap, besideEnv>>

\* The call has returned; the callback updates process.env for immediate
\* use.  Other callers just go on.
SetProcessEnv ==
    /\ update.pc = "renamed"
    /\ processEnv' =
          IF update.token = NoToken THEN processEnv
          ELSE [processEnv EXCEPT
                    ![AccessKey] = update.token.accessToken,
                    ![RefreshKey] =
                        IF update.token.refreshToken # Undefined
                        THEN update.token.refreshToken ELSE @]
    /\ update' = Returned(update)
    /\ UNCHANGED <<envFile, tmpFile>>
    /\ UNCHANGED <<overlap, besideEnv>>

InitEnv ==
    /\ state = NewSession
    /\ disk = NewSession
    /\ storageOk = TRUE
    /\ now = 0
    /\ result = Res("ok", NoOne, 0)
    /\ queue = <<>>
    /\ seen = <<>>
    /\ envFile \in EnvContents
    /\ tmpFile = NoFile
    /\ update = Idle
    /\ processEnv \in {[k \in EnvKeys |-> Undefined],
                        [k \in EnvKeys |-> <<"t0">>]}
    /\ overlap = [c \in PairCalls |-> NotCalled]
    /\ lockFile = NoLockFile
    /\ flocks = [i \in Inodes |-> NoOne]
    /\ instances = [p \in Instances |-> NotStarted]
    /\ manager = NewManager
    /\ callers = [c \in Callers2 |-> NoCall]
    /\ removers = [h \in Handlers |-> "none"]
    /\ delivered = NoMessage

CmdOnRefresh ==
    \E accountId \in AccountIds, token \in RefreshedTokens :
        OnRefresh(accountId, token)
CmdUpdateDotEnv ==
    \E updates \in UpdateLists : CallUpdate(updates, NoToken, Undefined)

NextEnv ==
    \/ CmdOnRefresh
    \/ CmdUpdateDotEnv
    \/ ReadEnv
    \/ ReadFails
    \/ WriteTmp
    \/ WriteCutOff
    \/ Rename
    \/ RenameFails
    \/ SetProcessEnv

SpecEnv == InitEnv /\ [][NextEnv]_vars

(***************************************************************************)
(* Two updateDotEnvFile calls on the same .env path in one process, with   *)
(* updates to different keys.  Each await (readFile, writeFile, rename) is *)
(* a point where the other call runs; both calls name their temporary file *)
(* envPath.pid.tmp, which is one and the same file.                        *)
(***************************************************************************)
PairUpdates(c) ==
    IF c = "refresh" THEN {RefreshUpdates(t) : t \in RefreshedTokens}
    ELSE {<<Entry2("OLLAMA_HOST", <<"y">>)>>, <<Entry2("TZ", <<"1">>)>>}

PairCall(c, updates) ==
    /\ overlap[c].pc = "idle"
    /\ overlap' = [overlap EXCEPT
            ![c] = [pc |-> "called", updates |-> updates, output |-> <<>>]]
    /\ UNCHANGED <<envFile, tmpFile, update, processEnv>>
    /\ UNCHANGED besideEnv

\* readFile, then the new content is computed from what was read.
PairRead(c) ==
    /\ overlap[c].pc = "called"
    /\ overlap' = [overlap EXCEPT
            ![c].pc = "read",
            ![c].output = Output(IF envFile = NoFile THEN <<>> ELSE envFile,
                                 overlap[c].updates)]
    /\ UNCHANGED <<envFile, tmpFile, update, processEnv>>
    /\ UNCHANGED besideEnv

\* writeFile(tmp, output)
PairWrite(c) ==
    /\ overlap[c].pc = "read"
    /\ tmpFile' = overlap[c].output
    /\ overlap' = [overlap EXCEPT ![c].pc = "written"]
    /\ UNCHANGED <<envFile, update, processEnv>>
    /\ UNCHANGED besideEnv

\* rename(tmp, envPath); it throws ENOENT when the temporary file is gone.
PairRename(c) ==
    /\ overlap[c].pc = "written"
    /\ IF tmpFile = NoFile
       THEN /\ overlap' = [overlap EXCEPT ![c].pc = "failed"]
            /\ UNCHANGED <<envFile, tmpFile>>
       ELSE /\ envFile' = tmpFile
            /\ tmpFile' = NoFile
            /\ overlap' = [overlap EXCEPT ![c].pc = "done"]
    /\ UNCHANGED <<update, processEnv>>
    /\ UNCHANGED besideEnv

CmdPairCall == \E c \in PairCalls : \E updates \in PairUpdates(c) :
                  PairCall(c, updates)
CmdPairRead == \E c \in PairCalls : PairRead(c)
CmdPairWrite == \E c \in PairCalls : PairWrite(c)
CmdPairRename == \E c \in PairCalls : PairRename(c)

NextPair ==
    \/ CmdPairCall
    \/ CmdPairRead
    \/ CmdPairWrite
    \/ CmdPairRename

SpecPair == InitEnv /\ [][NextPair]_vars

(***************************************************************************)
(* start-moltbot.sh.  Every invocation opens /tmp/moltbot-starting.lock on *)
(* descriptor 9 (creating the file when the path is free), tries a         *)
(* non-blocking flock on it and exits at once when the lock is taken;      *)
(* the holder sets an EXIT trap that removes the file and goes through the *)
(* startup steps.  A flock belongs to the file behind the descriptor, not  *)
(* to the path: after rm the path is free for a new file while the old     *)
(* file lives on for whoever has it open.                                  *)
(***************************************************************************)
\* exec 9>"$LOCK_FILE"
OpenLock(p) ==
    /\ instances[p].pc = "waiting"
    /\ IF lockFile.inode = 0
       THEN /\ lockFile' = [inode |-> lockFile.created + 1,
                            created |-> lockFile.created + 1]
            /\ instances' = [instances EXCEPT
                    ![p] = [pc |-> "opened", fd |-> lockFile.created + 1]]
       ELSE /\ UNCHANGED lockFile
            /\ instances' = [instances EXCEPT
                    ![p] = [pc |-> "opened", fd |-> lockFile.inode]]
    /\ UNCHANGED flocks
    /\ UNCHANGED besideScript

\* if ! flock -n 9; then exit 0; fi; trap 'rm -f "$LOCK_FILE"' EXIT
Flock(p) ==
    /\ instances[p].pc = "opened"
    /\ IF flocks[instances[p].fd] = NoOne
       THEN /\ flocks' = [flocks EXCEPT ![instances[p].fd] = p]
            /\ instances' = [instances EXCEPT ![p].pc = "startup"]
       ELSE /\ UNCHANGED flocks
            /\ instances' = [instances EXCEPT ![p].pc = "exited"]
    /\ UNCHANGED lockFile
    /\ UNCHANGED besideScript

\* The startup steps end (done, or a step failed under set -e): the EXIT
\* trap removes whatever file the path names.
ExitTrap(p) ==
    /\ instances[p].pc = "startup"
    /\ lockFile' = [lockFile EXCEPT !.inode = 0]
    /\ instances' = [instances EXCEPT ![p].pc = "trap"]
    /\ UNCHANGED flocks
    /\ UNCHANGED besideScript

\* The process is gone: descriptor 9 is closed and its flock released.
ProcessExit(p) ==
    /\ instances[p].pc = "trap"
    /\ flocks' = [flocks EXCEPT ![instances[p].fd] = NoOne]
    /\ instances' = [instances EXCEPT ![p].pc = "exited"]
    /\ UNCHANGED lockFile
    /\ UNCHANGED besideScript

CmdOpenLock == \E p \in Instances : OpenLock(p)
CmdFlock == \E p \in Instances : Flock(p)
CmdExitTrap == \E p \in Instances : ExitTrap(p)
CmdProcessExit == \E p \in Instances : ProcessExit(p)

NextScript ==
    \/ CmdOpenLock
    \/ CmdFlock
    \/ CmdExitTrap
    \/ CmdProcessExit

SpecScript == Init /\ [][NextScript]_vars

(***************************************************************************)
(* TwitchClientManager.  getClient is an async function: it looks the      *)
(* account key up in the clients map, resolves the token, awaits the auth  *)
(* provider, makes a ChatClient, awaits its connect and only then stores   *)
(* it.  Other calls run while it waits.  onMessage stores one handler per  *)
(* account key and hands back a function that deletes the key.             *)
(***************************************************************************)
\* The config objects of the callers: a token for the default account, or
\* none at all.
ClientConfigs ==
    {[accessToken |-> <<"t0">>, accounts |-> [id \in {} |-> Undefined]],
     [accessToken |-> Undefined, accounts |-> [id \in {} |-> Undefined]]}

\* getClient up to its first await: the stored client is returned, or the
\* call throws for a missing token or client id, or it goes on to await
\* createAuthProvider.
GetClient(c, cfg, clientId) ==
    /\ callers[c].pc \in {"idle", "returned", "failed"}
    /\ manager.gets < MaxGets
    /\ manager' = [manager EXCEPT !.gets = @ + 1]
    /\ callers' = [callers EXCEPT ![c] =
          IF manager.clients # 0
          THEN [pc |-> "returned", client |-> manager.clients]
          ELSE IF ResolveTwitchToken(cfg, Undefined, Undefined,
                                     processEnv).token = <<>>
          THEN [pc |-> "failed", client |-> 0]
          ELSE IF ~clientId THEN [pc |-> "failed", client |-> 0]
          ELSE [pc |-> "auth", client |-> 0]]
    /\ UNCHANGED <<removers, delivered>>
    /\ UNCHANGED besideManager

\* createAuthProvider throws: addUserForToken rejects, or the proactive
\* refresh of an expired token fails.
AuthFails(c) ==
    /\ callers[c].pc = "auth"
    /\ callers' = [callers EXCEPT ![c] = [pc |-> "failed", client |-> 0]]
    /\ UNCHANGED <<manager, removers, delivered>>
    /\ UNCHANGED besideManager

\* The auth provider is there: new ChatClient, setupClientHandlers, and
\* the call awaits client.connect().
NewChatClient(c) ==
    /\ callers[c].pc = "auth"
    /\ manager' = [manager EXCEPT !.created = @ + 1]
    /\ callers' = [callers EXCEPT
          ![c] = [pc |-> "connecting", client |-> manager.created + 1]]
    /\ UNCHANGED <<removers, delivered>>
    /\ UNCHANGED besideManager

\* connect resolves: the client is stored under the key and returned.
Connect(c) ==
    /\ callers[c].pc = "connecting"
    /\ manager' = [manager EXCEPT
            !.connected = @ \cup {callers[c].client},
            !.clients = callers[c].client]
    /\ callers' = [callers EXCEPT ![c].pc = "returned"]
    /\ UNCHANGED <<removers, delivered>>
    /\ UNCHANGED besideManager

ConnectFailsStored(c) ==
    /\ callers[c].pc = "connecting"
    /\ manager' = [manager EXCEPT !.clients = callers[c].client]
    /\ callers' = [callers EXCEPT ![c] = [pc |-> "failed", client |-> 0]]
    /\ UNCHANGED <<removers, delivered>>
    /\ UNCHANGED besideManager

\* connect rejects: the call throws, the client made is dropped.
ConnectFails(c) ==
    /\ callers[c].pc = "connecting"
    /\ callers' = [callers EXCEPT ![c] = [pc |-> "failed", client |-> 0]]
    /\ UNCHANGED <<manager, removers, delivered>>
    /\ UNCHANGED besideManager

\* onMessage(account, handler): the handler is stored under the key and a
\* remover is handed back.
OnMessage(h) ==
    /\ removers[h] = "none"
    /\ manager' = [manager EXCEPT !.messageHandlers = h]
    /\ removers' = [removers EXCEPT ![h] = "held"]
    /\ UNCHANGED <<callers, delivered>>
    /\ UNCHANGED besideManager

\* The remover handed back for h is called: the key is deleted.
Remover(h) ==
    /\ removers[h] = "held"
    /\ manager' = [manager EXCEPT !.messageHandlers = NoOne]
    /\ removers' = [removers EXCEPT ![h] = "called"]
    /\ UNCHANGED <<callers, delivered>>
    /\ UNCHANGED besideManager

\* A chat message comes in on connected client k: it goes to the handler
\* stored under the key at that moment, if there is one.
IncomingMessage(k) ==
    /\ k \in manager.connected
    /\ delivered.count < MaxMessages
    /\ delivered' = [to |-> manager.messageHandlers,
                     count |-> delivered.count + 1]
    /\ UNCHANGED <<manager, callers, removers>>
    /\ UNCHANGED besideManager

\* disconnect(account): with a client stored, it quits and both maps lose
\* the key.
Disconnect ==
    /\ manager.clients # 0
    /\ manager' = [manager EXCEPT
            !.connected = @ \ {manager.clients},
            !.clients = 0,
            !.messageHandlers = NoOne]
    /\ UNCHANGED <<callers, removers, delivered>>
    /\ UNCHANGED besideManager

\* disconnectAll: every stored client quits and both maps are cleared.
DisconnectAll ==
    /\ manager' = [manager EXCEPT
            !.connected = @ \ {manager.clients},
            !.clients = 0,
            !.messageHandlers = NoOne]
    /\ UNCHANGED <<callers, removers, delivered>>
    /\ UNCHANGED besideManager

CmdGetClient ==
    \E c \in Callers2, cfg \in ClientConfigs, clientId \in BOOLEAN :
        GetClient(c, cfg, clientId)
CmdAuthFails == \E c \in Callers2 : AuthFails(c)
CmdNewChatClient == \E c \in Callers2 : NewChatClient(c)
CmdConnect == \E c \in Callers2 : Connect(c)
CmdConnectFails == \E c \in Callers2 : ConnectFails(c)
CmdOnMessage == \E h \in Handlers : OnMessage(h)
CmdRemover == \E h \in Handlers : Remover(h)
CmdIncomingMessage == \E k \in 1..MaxGets : IncomingMessage(k)

NextManager ==
    \/ CmdGetClient
    \/ CmdAuthFails
    \/ CmdNewChatClient
    \/ CmdConnect
    \/ CmdConnectFails
    \/ CmdOnMessage
    \/ CmdRemover
    \/ CmdIncomingMessage
    \/ Disconnect
    \/ DisconnectAll

SpecManager == Init /\ [][NextManager]_vars

(***************************************************************************)
(* Properties of the session engine.                                       *)
(***************************************************************************)
Rows(s) == DOMAIN s.participants
Row(s, c) == s.participants[c]

\* C1: whenever mode = combat the initiative sequence is non-empty and the
\* current-turn pointer is an index inside it (after any command sequence,
\* set-mode(combat) from rp or cutscene included).
C1_CombatHasCurrentTurn ==
    state.mode = "combat" =>
        /\ Len(state.initiative) > 0
        /\ state.currentIndex \in 0..(Len(state.initiative) - 1)

\* C2: every participant has exactly one controller, a viewer id or "bot",
\* in every state a command leaves behind (in memory and persisted): join,
\* leave, the AFK reassignment and the two-command bot-to-human handoff
\* never leave a character with no controller.
C2_ExactlyOneController ==
    /\ \A c \in Rows(state) : Row(state, c).controller \in Controllers
    /\ \A c \in Rows(disk) : Row(disk, c).controller \in Controllers

\* C2 witness: Kira, once claimed by a viewer, is held by the bot (taken
\* back by leave or by the AFK reassignment) while another row exists.
C2_Witness ==
    /\ Rows(state) = Characters
    /\ Row(state, "Kira").controller = Bot
    /\ Row(state, "Kira").skipCount >= AfkSkips

\* C3: in combat with a current turn, log-action(v, c) is accepted exactly
\* when c is the entry at the pointer and v is c's controller; any other
\* log-action answers NotYourTurn naming the current character and leaves
\* the record (log, skip counts, pointer, deadline) as it was.
C3_NotYourTurn ==
    \A v \in Callers, c \in Characters :
        (state.mode = "combat" /\ HasTurn(state)) =>
            LET after == After(LogAction(state, v, c, now))
            IN  IF c = Current(state) /\ Controls(state, v, c)
                THEN /\ after.result.kind = "ok"
                     /\ after.state.actionLog =
                            Append(state.actionLog, Entry(c, now))
                ELSE /\ after.result = Res("NotYourTurn", Current(state), 0)
                     /\ after.state = state
                     /\ after.disk = disk

\* C3 witness: Kira's turn, Kira controlled by alice, and the last command
\* was answered NotYourTurn naming Kira.
C3_Witness ==
    /\ state.mode = "combat"
    /\ state.initiative = <<"Kira", "Stormtrooper">>
    /\ state.currentIndex = 0
    /\ Controls(state, "alice", "Kira")
    /\ result = Res("NotYourTurn", "Kira", 0)
    /\ state.actionLog = <<>>

\* C4: whatever the character's row (skip count, controller, status) and
\* whatever the mode, a join(v, c) the engine applies leaves c controlled
\* by v with skipCount 0 and status active; join is never turned down for
\* the row or the mode, only by the StateInvariantViolation refusal.
C4_JoinAlwaysWins ==
    \A v \in Controllers, c \in Characters :
        LET after == After(Join(state, v, c))
        IN  IF Broken(state)
            THEN /\ after.result.kind = "StateInvariantViolation"
                 /\ after.state = state
            ELSE /\ after.result.kind = "ok"
                 /\ c \in Rows(after.state)
                 /\ Row(after.state, c).controller = v
                 /\ Row(after.state, c).skipCount = 0
                 /\ Row(after.state, c).activityStatus = "active"
                 /\ after.disk = after.state

\* C4 witness: in combat, while the bot-run Stormtrooper is afk, renn holds
\* Kira with a fresh row (rows only come from join).
C4_Witness ==
    /\ state.mode = "combat"
    /\ Controls(state, "renn", "Kira")
    /\ Row(state, "Kira").skipCount = 0
    /\ "Stormtrooper" \in Rows(state)
    /\ Row(state, "Stormtrooper").activityStatus = "afk"
    /\ result.kind = "ok"

\* C5: a participant's status is the image of its skip count: active for
\* 0 or 1, idle for 2, afk for 3 or more.
C5_StatusFollowsSkips ==
    \A c \in Rows(state) :
        LET n == Row(state, c).skipCount
            a == Row(state, c).activityStatus
        IN  /\ n >= 0
            /\ (n <= 1 => a = "active")
            /\ (n = 2 => a = "idle")
            /\ (n >= 3 => a = "afk")

\* C5 witness: one participant idle at two skips.
C5_Witness ==
    \E c \in Rows(state) :
        Row(state, c).skipCount = 2 /\ Row(state, c).activityStatus = "idle"

\* C6: the auto-advance that raises a skip count to 3 hands the character
\* to the bot and marks it afk in the same command, and in every state an
\* afk participant is controlled by the bot.
C6_AfkIsBotControlled ==
    /\ [](\A c \in Rows(state) :
            Row(state, c).activityStatus = "afk" =>
                Row(state, c).controller = Bot)
    /\ [][\A c \in Rows(state) \cap Rows(state') :
            (Row(state, c).skipCount < AfkSkips
                /\ Row(state', c).skipCount >= AfkSkips) =>
                /\ Row(state', c).controller = Bot
                /\ Row(state', c).activityStatus = "afk"]_vars

\* C6 witness: Kira was alice's or renn's (only a viewer's character can
\* be on its third skip with the bot as a new controller) and is now afk.
C6_Witness ==
    /\ "Kira" \in Rows(state)
    /\ Row(state, "Kira").skipCount = AfkSkips
    /\ Row(state, "Kira").activityStatus = "afk"
    /\ Row(state, "Kira").controller = Bot
    /\ result.kind = "ok"

\* C7: an auto-advance issued while the clock is before the stored
\* deadline changes nothing (pointer, deadline, skip counts, controllers)
\* and reports the remaining seconds.
C7_AutoAdvanceBeforeExpiry ==
    now < state.deadline =>
        LET after == After(AutoAdvance(state, now))
        IN  /\ after.state = state
            /\ after.disk = disk
            /\ state.mode = "combat" =>
                    after.result = Res("NotExpired", Current(state),
                                       state.deadline - now)

\* C7 witness: an unexpired timer was checked during Kira's turn.
C7_Witness ==
    /\ state.mode = "combat"
    /\ now < state.deadline
    /\ result.kind = "NotExpired"
    /\ result.who = "Kira"
    /\ result.secs = 2

\* C8: when the deadline has passed and the current character logged no
\* action this turn, auto-advance moves the pointer to the next entry
\* modulo the length, adds exactly 1 to that character's skip count and
\* sets the deadline to now + timeout; for initiative (Kira, Stormtrooper)
\* the first expiry puts the pointer on Stormtrooper with Kira at one skip
\* and still active.
C8_AutoAdvanceAtExpiry ==
    (/\ state.mode = "combat"
     /\ HasTurn(state)
     /\ now >= state.deadline
     /\ ~ActedThisTurn(state)) =>
        LET after == After(AutoAdvance(state, now))
            cur == Current(state)
        IN  /\ after.result.kind = "ok"
            /\ after.state.initiative = state.initiative
            /\ after.state.currentIndex =
                   (state.currentIndex + 1) % Len(state.initiative)
            /\ after.state.deadline = now + state.timeout
            /\ after.state.deadline > now
            /\ Rows(after.state) = Rows(state)
            /\ cur \in Rows(state) =>
                   Row(after.state, cur).skipCount =
                       Row(state, cur).skipCount + 1
            /\ (/\ state.initiative = <<"Kira", "Stormtrooper">>
                /\ cur = "Kira"
                /\ "Kira" \in Rows(state)
                /\ Row(state, "Kira").skipCount = 0) =>
                   /\ Current(after.state) = "Stormtrooper"
                   /\ Row(after.state, "Kira").skipCount = 1
                   /\ Row(after.state, "Kira").activityStatus = "active"

\* C8 witness: the state after the first expiry of the scenario.
C8_Witness ==
    /\ state.mode = "combat"
    /\ state.initiative = <<"Kira", "Stormtrooper">>
    /\ Current(state) = "Stormtrooper"
    /\ state.actionLog = <<>>
    /\ Controls(state, "alice", "Kira")
    /\ Row(state, "Kira").skipCount = 1
    /\ Row(state, "Kira").activityStatus = "active"
    /\ state.deadline = now + state.timeout

\* C9: a skip count goes up only by 1 and only in an auto-advance that
\* expires that participant's own turn; an accepted log-action for the
\* character and a join reset it to 0 with status active; no other command
\* (a manual next-turn with no action logged included) raises any count.
C9_SkipsOnlyByAutoAdvance ==
    /\ [][/\ \A c \in Rows(state) \cap Rows(state') :
                Row(state', c).skipCount > Row(state, c).skipCount =>
                    /\ AutoAdvanceStep
                    /\ state.mode = "combat"
                    /\ c = Current(state)
                    /\ now >= state.deadline
                    /\ Row(state', c).skipCount = Row(state, c).skipCount + 1
          /\ \A c \in Rows(state') \ Rows(state) :
                Row(state', c).skipCount = 0]_vars
    /\ [](/\ LET after == After(NextTurn(state, now))
             IN  \A c \in Rows(state) :
                    /\ c \in Rows(after.state)
                    /\ Row(after.state, c).skipCount <= Row(state, c).skipCount
          /\ \A v \in Callers, c \in Rows(state) :
                LET after == After(LogAction(state, v, c, now))
                IN  after.result.kind = "ok" =>
                        /\ Row(after.state, c).skipCount = 0
                        /\ Row(after.state, c).activityStatus = "active"
          /\ \A v \in Controllers, c \in Characters :
                LET after == After(Join(state, v, c))
                IN  after.result.kind = "ok" =>
                        Row(after.state, c).skipCount = 0)

\* C9 witness: at second 0, before any deadline can have passed, a manual
\* next-turn has ended Kira's turn with nothing logged and Kira's skip
\* count is still 0.
C9_Witness ==
    /\ now = 0
    /\ state.mode = "combat"
    /\ state.initiative = <<"Kira", "Stormtrooper">>
    /\ state.currentIndex = 1
    /\ state.actionLog = <<>>
    /\ "Kira" \in Rows(state)
    /\ Row(state, "Kira").skipCount = 0
    /\ result.kind = "ok"

\* P holds of what every command of the surface makes of record s at time
\* clock, over the arguments tried.
EveryOutcome(P(_), s, clock) ==
    /\ P(InitSession(s))
    /\ P(NextTurn(s, clock))
    /\ P(EndCombat(s))
    /\ P(AutoAdvance(s, clock))
    /\ P(EndSession(s))
    /\ \A p \in SurfaceJoins : P(Join(s, p[1], p[2])) /\ P(Leave(s, p[1]))
    /\ \A m \in Modes : P(SetMode(s, m))
    /\ \A p \in SurfaceLists \X SurfaceTimeouts :
            P(Initiative(s, p[1], p[2], clock))
    /\ \A p \in SurfaceLogs : P(LogAction(s, p[1], p[2], clock))
    /\ \A p \in MoveInputs : P(MoveToken(s, p[1], p[2], p[3], p[4], p[5]))
    /\ \A c \in Characters : P(RemoveToken(s, c))
    /\ \A p \in SetMapInputs : P(SetMap(s, p[1], p[2]))
    /\ \A map \in LoadedMaps : P(SwitchScene(s, map))
    /\ \A p \in TransferInputs : P(TransferToken(s, p[1], p[2], p[3]))
    /\ \A p \in AwardInputs : P(AwardCp(s, p[1], p[2]))
    /\ \A scene \in SceneInputs : P(UpdateScene(s, scene))
    /\ \A text \in CrawlInputs : P(SetCrawl(s, text))

\* Whether the store turns the outcome out, from record s persisted as d,
\* into either the whole effect (in memory and persisted) or no change.
AllOrNothing(s, d, healthy, out) ==
    LET after == Mutate(s, d, healthy, out)
    IN  /\ after.result.kind \in Failures \cup {"ok", "NotExpired", "NoTimer"}
        /\ IF after.result.kind = "ok"
           THEN after.state = out.st /\ after.disk = out.st
           ELSE after.state = s /\ after.disk = d
        /\ out.res.kind \in Failures =>
                after.result = out.res /\ out.st = s

\* C10: every command of the surface answers ok, a timer report or one of
\* the seven structured failures; a command that answers a failure leaves
\* the record in memory and the persisted record exactly as they were; the
\* record only ever changes to the complete result of a command that
\* answered ok, persisted in the same step (set-map --clear-tokens changes
\* the map and empties the tokens together, transfer-token changes map and
\* position together, initiative sets mode, sequence, pointer and deadline
\* together).
C10_AtomicCommands ==
    /\ [](/\ state = disk
          /\ EveryOutcome(LAMBDA out :
                    /\ AllOrNothing(state, disk, storageOk, out)
                    /\ out.res.kind \in
                           Failures \cup {"ok", "NotExpired", "NoTimer"},
                state, now)
          /\ \A p \in SetMapInputs :
                LET out == SetMap(state, p[1], p[2])
                IN  out.res.kind = "ok" =>
                        /\ out.st.activeMap = p[1]
                        /\ p[2] => out.st.tokens = <<>>
          /\ \A p \in TransferInputs :
                LET out == TransferToken(state, p[1], p[2], p[3])
                IN  out.res.kind = "ok" =>
                        /\ TokenOf(out.st, p[1]).map = p[2]
                        /\ TokenOf(out.st, p[1]).position \in Positions(p[2])
          /\ \A p \in SurfaceLists \X SurfaceTimeouts :
                LET out == Initiative(state, p[1], p[2], now)
                IN  out.res.kind = "ok" =>
                        /\ out.st.mode = "combat"
                        /\ out.st.initiative = p[1]
                        /\ out.st.currentIndex = 0
                        /\ out.st.deadline = now + p[2])
    /\ [][/\ result'.kind \in Failures \cup {"ok", "NotExpired", "NoTimer"}
          /\ (state' # state \/ disk' # disk) =>
                /\ result'.kind = "ok"
                /\ disk' = state'
          /\ (result' # result /\ result'.kind \in Failures) =>
                state' = state /\ disk' = disk]_vars

\* C10 witness: in a session with a combat under way, an action logged and
\* Kira's token moved to the streets, the last command was turned down with
\* StorageError and memory still equals the persisted record.
C10_Witness ==
    /\ ~storageOk
    /\ result.kind = "StorageError"
    /\ state = disk
    /\ state.mode = "combat"
    /\ Len(state.actionLog) = 1
    /\ HasToken(state, "Kira")
    /\ TokenOf(state, "Kira").map = "streets.svg"

\* The record after the calls of q are run one after the other, in the
\* order of q, each as a whole, starting from record s.
RECURSIVE Sequentially(_, _, _)
Sequentially(s, q, clock) ==
    IF q = <<>> THEN s
    ELSE Sequentially(Mutate(s, s, TRUE, Run(s, Head(q), clock)).state,
                      Tail(q), clock)

C12_FailedWriteKeepsLastGood ==
    /\ [](/\ state = disk
          /\ \A out \in SurfaceOutcomes(state, now) :
                out.res.kind = "ok" =>
                    LET after == Mutate(state, disk, FALSE, out)
                    IN  /\ after.disk = disk
                        /\ after.state = disk
                        /\ after.result.kind = "StorageError"
                        /\ CrashedWrite(disk, out.st) = disk)
    /\ [][/\ disk' # disk =>
                /\ storageOk
                /\ result'.kind = "ok"
                /\ state' = disk'
                /\ \E out \in SurfaceOutcomes(state, now) :
                        out.res.kind = "ok" /\ out.st = disk'
          /\ (~storageOk /\ ~storageOk') =>
                /\ state' = state
                /\ disk' = disk
                /\ result'.kind \in Failures \cup {"ok", "NoAnswer"}
          /\ (\E q \in Reads : Read(q)) =>
                result'.kind = "ok" /\ state' = disk /\ disk' = disk]_vars

\* C12 witness: with alice on Kira in a combat already persisted, the
\* storage is down, the last command was answered StorageError, and memory
\* and the record file still hold that last-good record.
C12_Witness ==
    /\ ~storageOk
    /\ result.kind = "StorageError"
    /\ state = disk
    /\ Controls(disk, "alice", "Kira")
    /\ disk.mode = "combat"
    /\ HasTurn(disk)

\* C13: in every reachable state the initiative sequence is non-empty only
\* if mode = combat: whenever the mode is rp or cutscene the sequence is
\* empty.
C13_InitiativeOnlyInCombat ==
    state.mode # "combat" => state.initiative = <<>>

\* C13, as the engine has it: a non-empty sequence always carries a valid
\* current-turn pointer and a deadline; the sequence is only ever replaced
\* by initiative (mode combat, pointer 0) or emptied by end-combat and init
\* (mode rp); outside combat a non-empty sequence is the one the session
\* had a step earlier, that is, the sequence of a combat that set-mode has
\* left without ending it.
C13_SequenceKeptOutsideCombat ==
    /\ [](state.initiative # <<>> =>
            HasTurn(state) /\ state.deadline # NoDeadline)
    /\ [][/\ state'.initiative # state.initiative =>
                \/ state'.initiative = <<>> /\ state'.mode = "rp"
                \/ state'.mode = "combat" /\ state'.currentIndex = 0
          /\ (state'.mode # "combat" /\ state'.initiative # <<>>) =>
                /\ state'.initiative = state.initiative
                /\ state'.currentIndex = state.currentIndex]_vars

\* C13 witness: back in rp by set-mode with the fight's sequence and
\* pointer still in the record.
C13_Witness ==
    /\ state.mode = "rp"
    /\ state.initiative = <<"Kira", "Stormtrooper">>
    /\ state.currentIndex = 1
    /\ result.kind = "ok"

\* C14: set-mode(cutscene) issued in combat leaves the initiative sequence
\* and the current-turn pointer as they were, and from a cutscene that
\* holds a sequence the single command set-mode(combat), with no new
\* initiative call, brings the session back to combat with the same
\* sequence and the same current-turn character.
C14_CutAwayAndReturn ==
    /\ (state.mode = "combat" /\ HasTurn(state)) =>
            LET cut == After(SetMode(state, "cutscene"))
                back == Mutate(cut.state, cut.disk, storageOk,
                               SetMode(cut.state, "combat"))
            IN  /\ cut.result.kind = "ok"
                /\ cut.state.mode = "cutscene"
                /\ cut.state.initiative = state.initiative
                /\ cut.state.currentIndex = state.currentIndex
                /\ back.result.kind = "ok"
                /\ back.state.mode = "combat"
                /\ back.state.initiative = state.initiative
                /\ Current(back.state) = Current(state)
    /\ (state.mode = "cutscene" /\ state.initiative # <<>>) =>
            LET back == After(SetMode(state, "combat"))
            IN  /\ back.result.kind = "ok"
                /\ back.state.mode = "combat"
                /\ back.state.initiative = state.initiative
                /\ back.state.currentIndex = state.currentIndex
                /\ Current(back.state) = Current(state)
                /\ Current(back.state) \in
                       {state.initiative[i] : i \in 1..Len(state.initiative)}

\* C14 witness: a cutscene entered on the Stormtrooper's turn, the second
\* of the fight, with the sequence and the pointer still in place.
C14_Witness ==
    /\ state.mode = "cutscene"
    /\ state.initiative = <<"Kira", "Stormtrooper">>
    /\ state.currentIndex = 1
    /\ Current(state) = "Stormtrooper"
    /\ result.kind = "ok"

\* C15: while mode = cutscene every log-action whose caller is not the
\* narrator is rejected as NarratorOnly, whatever viewer and character it
\* names (the character's own controller and an unknown character
\* included), and the rejection leaves the whole record as it was: nothing
\* appended to the action log, no skip count, status or controller changed.
C15_CutsceneNarratorOnly ==
    state.mode = "cutscene" =>
        \A v \in Callers \ {Narrator}, c \in Characters \cup {"Greevak"} :
            LET after == After(LogAction(state, v, c, now))
            IN  /\ after.result.kind = "NarratorOnly"
                /\ after.state = state
                /\ after.state.actionLog = state.actionLog
                /\ after.state.participants = state.participants
                /\ after.disk = disk

\* C15 witness: in a cutscene alice, who controls Kira, was just answered
\* NarratorOnly and the log is still empty.
C15_Witness ==
    /\ state.mode = "cutscene"
    /\ Controls(state, "alice", "Kira")
    /\ result.kind = "NarratorOnly"
    /\ state.actionLog = <<>>

\* C16: while mode = rp a log-action by the controller of an existing
\* character is accepted whatever the initiative sequence, the skip count
\* and the status are (the entry is appended, the skip count reset, the
\* status active); a log-action that names a character with no row is
\* rejected with a structured failure and changes nothing.
C16_RpAcceptsControllers ==
    state.mode = "rp" =>
        /\ \A c \in Rows(state) :
            LET after == After(LogAction(state, Row(state, c).controller,
                                         c, now))
            IN  /\ after.result.kind = "ok"
                /\ after.state.actionLog =
                       Append(state.actionLog, Entry(c, now))
                /\ Row(after.state, c).skipCount = 0
                /\ Row(after.state, c).activityStatus = "active"
        /\ \A v \in Callers, c \in (Characters \cup {"Greevak"}) \ Rows(state) :
            LET after == After(LogAction(state, v, c, now))
            IN  /\ after.result.kind \in Failures
                /\ after.state = state
                /\ after.disk = disk

\* C16 witness: in rp, with the sequence of an unfinished fight still in
\* the record, alice's action for Kira is the entry just logged.
C16_Witness ==
    /\ state.mode = "rp"
    /\ state.initiative # <<>>
    /\ Controls(state, "alice", "Kira")
    /\ state.actionLog = <<Entry("Kira", now)>>
    /\ Row(state, "Kira").skipCount = 0
    /\ result.kind = "ok"

\* C17: after any sequence of move-token, transfer-token, remove-token and
\* set-map commands the token list holds at most one token per character
\* name; a move-token for a character that already has a token replaces
\* that token (the list keeps its length and the character's one entry is
\* the new token) instead of adding a second one.
C17_OneTokenPerCharacter ==
    /\ \A c \in Characters :
            /\ Cardinality(TokensOf(state, c)) <= 1
            /\ Cardinality(TokensOf(disk, c)) <= 1
    /\ Len(state.tokens) <= Cardinality(Characters)
    /\ \A p \in MapMoves :
            LET after == After(MoveToken(state, p[1], p[2], p[3], p[4], p[5]))
            IN  after.result.kind = "ok" =>
                    /\ Cardinality(TokensOf(after.state, p[1])) = 1
                    /\ TokenOf(after.state, p[1]) =
                           Token(p[1], p[2], p[3], p[4], p[5])
                    /\ Len(after.state.tokens) =
                           IF HasToken(state, p[1]) THEN Len(state.tokens)
                           ELSE Len(state.tokens) + 1

\* C17 witness: both characters have a token; Kira's, placed first and
\* moved since, is the later entry of the list and sits at the entrance.
C17_Witness ==
    /\ Len(state.tokens) = 2
    /\ state.tokens[1].characterName = "Stormtrooper"
    /\ state.tokens[2] = Token("Kira", "cantina.svg", "entrance", "blue", FALSE)
    /\ result.kind = "ok"

\* The places of the two loaded maps, spelt exactly.
NamedPlaces ==
    {<<"cantina.svg", "bar-stool-l3">>, <<"cantina.svg", "entrance">>,
     <<"streets.svg", "cantina-door">>, <<"streets.svg", "checkpoint">>}

\* C18: every token is validated when written.  move-token, and
\* transfer-token with an explicit position, succeed only if the map has
\* loaded terrain and the position is an exact, case-sensitive member of
\* that map's named positions; otherwise they fail with UnknownPosition and
\* the character's previous token and all other tokens stay as they were.
\* Every token in the record sits on a named place.  (In the pointer-less
\* combat state the command is refused with StateInvariantViolation, also
\* without any change.)
C18_TokensValidatedAtWrite ==
    /\ \A i \in 1..Len(state.tokens) :
            <<state.tokens[i].map, state.tokens[i].position>> \in NamedPlaces
    /\ \A p \in MapMoves :
            LET after == After(MoveToken(state, p[1], p[2], p[3], p[4], p[5]))
            IN  IF Broken(state)
                THEN /\ after.result.kind = "StateInvariantViolation"
                     /\ after.state = state
                ELSE IF <<p[2], p[3]>> \in NamedPlaces
                THEN after.result.kind = "ok"
                ELSE /\ after.result.kind = "UnknownPosition"
                     /\ after.state.tokens = state.tokens
                     /\ after.state = state
                     /\ after.disk = disk
    /\ \A p \in {x \in MapTransfers : x[3] # NoOne} :
            LET after == After(TransferToken(state, p[1], p[2], p[3]))
            IN  IF Broken(state)
                THEN /\ after.result.kind = "StateInvariantViolation"
                     /\ after.state = state
                ELSE IF <<p[2], p[3]>> \in NamedPlaces
                THEN after.result.kind = "ok" =>
                        <<TokenOf(after.state, p[1]).map,
                          TokenOf(after.state, p[1]).position>> = <<p[2], p[3]>>
                ELSE /\ after.result.kind = "UnknownPosition"
                     /\ after.state.tokens = state.tokens
                     /\ after.state = state
                     /\ after.disk = disk

\* C18 witness: a move of Kira to the misspelt position Entrance was just
\* turned down; Kira's token is still at the bar and the Stormtrooper's
\* token is in place.
C18_Witness ==
    /\ result.kind = "UnknownPosition"
    /\ result.who = "Entrance"
    /\ HasToken(state, "Kira")
    /\ TokenOf(state, "Kira").position = "bar-stool-l3"
    /\ HasToken(state, "Stormtrooper")

\* C19: with Kira's token at bar-stool-l3 on cantina.svg and the declared
\* connection from cantina position entrance to streets position
\* cantina-door, transfer-token("Kira", "streets.svg") with no position
\* succeeds and puts Kira's token on streets.svg at cantina-door (color and
\* hidden flag kept, the other tokens untouched).
C19_TransferFromBarStool ==
    /\ <<"cantina.svg", "entrance", "streets.svg", "cantina-door">>
            \in Connections
    /\ (/\ ~Broken(state)
        /\ HasToken(state, "Kira")
        /\ TokenOf(state, "Kira").map = "cantina.svg"
        /\ TokenOf(state, "Kira").position = "bar-stool-l3") =>
            LET after == After(TransferToken(state, "Kira", "streets.svg",
                                             NoOne))
            IN  /\ after.result.kind = "ok"
                /\ TokenOf(after.state, "Kira") =
                       [TokenOf(state, "Kira") EXCEPT
                            !.map = "streets.svg", !.position = "cantina-door"]
                /\ Without(after.state.tokens, "Kira") =
                       Without(state.tokens, "Kira")
                /\ Cardinality(TokensOf(after.state, "Kira")) = 1

\* C19 witness: Kira's token stands at cantina-door on the streets, where
\* only a transfer without position can have put it, while the cantina is
\* still the active map.
C19_Witness ==
    /\ HasToken(state, "Kira")
    /\ TokenOf(state, "Kira").map = "streets.svg"
    /\ TokenOf(state, "Kira").position = "cantina-door"
    /\ state.activeMap = "cantina.svg"
    /\ result.kind = "ok"

\* C20: switch-scene(map, name) changes Session.activeMap and nothing
\* else: every token, the mode, the initiative sequence, the current-turn
\* pointer, the deadline and every participant are as before, so the
\* tokens on the previously active map remain in the record.  (In the
\* pointer-less combat state the command is refused with
\* StateInvariantViolation and changes nothing at all.)
C20_SwitchSceneOnlyActiveMap ==
    \A map \in MapScenes :
        LET after == After(SwitchScene(state, map))
        IN  IF Broken(state)
            THEN /\ after.result.kind = "StateInvariantViolation"
                 /\ after.state = state
            ELSE /\ after.result.kind = "ok"
                 /\ after.state.activeMap = map
                 /\ after.state.tokens = state.tokens
                 /\ after.state.mode = state.mode
                 /\ after.state.initiative = state.initiative
                 /\ after.state.currentIndex = state.currentIndex
                 /\ after.state.deadline = state.deadline
                 /\ after.state.participants = state.participants
                 /\ after.state = [state EXCEPT !.activeMap = map]
                 /\ after.disk = after.state

\* C20 witness: in a fight, the overlay shows the streets while Kira's
\* token still stands at the bar of the cantina.
C20_Witness ==
    /\ state.activeMap = "streets.svg"
    /\ state.mode = "combat"
    /\ HasTurn(state)
    /\ HasToken(state, "Kira")
    /\ TokenOf(state, "Kira").map = "cantina.svg"
    /\ TokenOf(state, "Kira").position = "bar-stool-l3"
    /\ result.kind = "ok"

\* The turn fields of a record: what a combat leaves in it.
Turn(s) ==
    [mode |-> s.mode, initiative |-> s.initiative,
     currentIndex |-> s.currentIndex, deadline |-> s.deadline,
     timeout |-> s.timeout]

\* C21: initiative(list, timeout) sets mode to combat, the sequence to
\* exactly list in the given order, the pointer to index 0 and the deadline
\* to now + timeout; end-combat then sets mode to rp with the sequence and
\* the pointer cleared; a second initiative(list) yields the same sequence
\* and pointer 0 again, with nothing (pointer position, deadline) left over
\* from the earlier combat, wherever that combat's pointer stood.  (In the
\* pointer-less combat state initiative is refused with
\* StateInvariantViolation until end-combat has cleared the condition.)
C21_InitiativeRoundTrip ==
    \A list \in InitiativeLists, t \in Timeouts, t2 \in Timeouts :
        LET first == After(Initiative(state, list, t, now))
            ended == Mutate(first.state, first.disk, storageOk,
                            EndCombat(first.state))
            again == Mutate(ended.state, ended.disk, storageOk,
                            Initiative(ended.state, list, t2, now))
            cleared == After(EndCombat(state))
            fresh == Mutate(cleared.state, cleared.disk, storageOk,
                            Initiative(cleared.state, list, t2, now))
        IN  /\ IF Broken(state)
               THEN /\ first.result.kind = "StateInvariantViolation"
                    /\ first.state = state
               ELSE /\ first.result.kind = "ok"
                    /\ Turn(first.state) =
                           [mode |-> "combat", initiative |-> list,
                            currentIndex |-> 0, deadline |-> now + t,
                            timeout |-> t]
                    /\ ended.result.kind = "ok"
                    /\ ended.state.mode = "rp"
                    /\ ended.state.initiative = <<>>
                    /\ ended.state.currentIndex = NoIndex
                    /\ ended.state.deadline = NoDeadline
                    /\ again.result.kind = "ok"
                    /\ again.state.initiative = first.state.initiative
                    /\ again.state.currentIndex = 0
                    /\ again.state.deadline = now + t2
                    /\ again.state.mode = "combat"
            /\ cleared.result.kind = "ok"
            /\ cleared.state.mode = "rp"
            /\ cleared.state.initiative = <<>>
            /\ cleared.state.currentIndex = NoIndex
            /\ fresh.result.kind = "ok"
            /\ Turn(fresh.state) =
                   [mode |-> "combat", initiative |-> list,
                    currentIndex |-> 0, deadline |-> now + t2,
                    timeout |-> t2]

\* C21 witness: a second fight with the same order.  Kira's skip was
\* counted when the first fight's one-second timer ran out at second 1 and
\* moved the pointer on; the record now holds the list again with the
\* pointer at 0 and a two-second timer started at second 1.
C21_Witness ==
    /\ now = 1
    /\ state.mode = "combat"
    /\ state.initiative = <<"Kira", "Stormtrooper">>
    /\ state.currentIndex = 0
    /\ state.timeout = 2
    /\ state.deadline = 3
    /\ "Kira" \in Rows(state)
    /\ Row(state, "Kira").skipCount = 1
    /\ result.kind = "ok"

\* a is an initial part of b: same entries at the same positions.
IsPrefix(a, b) == Len(a) <= Len(b) /\ SubSeq(b, 1, Len(a)) = a

\* A log made of whole entries only.
WholeEntries(log) ==
    \A i \in 1..Len(log) :
        /\ DOMAIN log[i] = {"character", "timestamp", "summary"}
        /\ log[i].character \in Characters
        /\ log[i].timestamp \in 0..now
        /\ log[i].summary = "acts"

\* C22: within a session the action log is append-only: no command of the
\* surface (init, which opens a new session, apart) makes it shorter or
\* changes an entry it holds, in memory or in the record file; a reader of
\* the record file, also one that reads while an append is being written
\* or cut off, holds a prefix of the log made of whole entries.
C22_LogAppendOnly ==
    /\ [](/\ EveryOutcome(LAMBDA out :
                    \/ out.st = NewSession
                    \/ /\ IsPrefix(state.actionLog, out.st.actionLog)
                       /\ Len(out.st.actionLog) <= Len(state.actionLog) + 1,
                state, now)
          /\ IsPrefix(seen, disk.actionLog)
          /\ IsPrefix(seen, state.actionLog)
          /\ WholeEntries(seen)
          /\ WholeEntries(disk.actionLog))
    /\ [][/\ IsPrefix(state.actionLog, state'.actionLog)
          /\ IsPrefix(disk.actionLog, disk'.actionLog)
          /\ IsPrefix(seen, seen')]_vars

\* C22 witness: a reader holds the one-entry log it read at second 0 while
\* the log has grown by an entry of second 1 behind it.
C22_Witness ==
    /\ seen = <<Entry("Kira", 0)>>
    /\ state.actionLog = <<Entry("Kira", 0), Entry("Kira", 1)>>
    /\ disk.actionLog = state.actionLog
    /\ result.kind = "ok"

\* The positions of the entries of c in the log.
EntriesOf(s, c) == {i \in 1..Len(s.actionLog) : s.actionLog[i].character = c}

\* C23: activity-summary changes nothing in the record (no skip count,
\* status, controller, log entry or timestamp), in memory or persisted, and
\* returns, for each character, the number of action-log entries of that
\* character and the timestamp of the latest of them, none (-1) when the
\* character has no entry.
C23_ActivitySummaryIsPureRead ==
    /\ [](LET sum == ActivitySummary(state)
          IN  /\ Rows(state) \subseteq DOMAIN sum
              /\ \A c \in DOMAIN sum :
                    /\ sum[c].actions = Cardinality(EntriesOf(state, c))
                    /\ IF EntriesOf(state, c) = {}
                       THEN sum[c].last_action = NoDeadline
                       ELSE /\ \E i \in EntriesOf(state, c) :
                                  sum[c].last_action =
                                      state.actionLog[i].timestamp
                            /\ \A i \in EntriesOf(state, c) :
                                  state.actionLog[i].timestamp <=
                                      sum[c].last_action)
    /\ [][ActivitySummaryStep =>
            /\ state' = state
            /\ disk' = disk
            /\ now' = now
            /\ result'.kind = "ok"
            /\ result'.summary = ActivitySummary(state')]_vars

\* C23 witness: the summary just returned counts Kira's two actions, the
\* later one at second 1, and lists the Stormtrooper with none.
C23_Witness ==
    /\ result.kind = "ok"
    /\ "summary" \in DOMAIN result
    /\ DOMAIN result.summary = {"Kira", "Stormtrooper"}
    /\ result.summary["Kira"] = [actions |-> 2, last_action |-> 1]
    /\ result.summary["Stormtrooper"] =
            [actions |-> 0, last_action |-> NoDeadline]
    /\ state.actionLog = <<Entry("Kira", 0), Entry("Kira", 1)>>

\* C24: in combat with a current-turn pointer outside the initiative
\* sequence every mutating command other than end-combat is refused with
\* StateInvariantViolation and leaves the record, in memory and persisted,
\* as it was; end-combat is accepted and, once written, leaves a valid
\* record (mode rp, sequence and pointer cleared) on which no command is
\* refused with StateInvariantViolation any more and join is accepted.
C24_RefusedUntilEndCombat ==
    Broken(state) =>
        /\ InitSession(state).res.kind = "StateInvariantViolation"
        /\ \A m \in Modes :
              SetMode(state, m).res.kind = "StateInvariantViolation"
        /\ EveryOutcome(LAMBDA out :
                \/ out = EndCombat(state)
                \/ /\ out.res.kind = "StateInvariantViolation"
                   /\ out.st = state
                   /\ After(out).state = state
                   /\ After(out).disk = disk
                   /\ After(out).result.kind = "StateInvariantViolation",
              state, now)
        /\ EndCombat(state).res.kind = "ok"
        /\ LET ended == Mutate(state, disk, TRUE, EndCombat(state))
           IN  /\ ended.result.kind = "ok"
               /\ ended.state.mode = "rp"
               /\ ended.state.initiative = <<>>
               /\ ended.state.currentIndex = NoIndex
               /\ ~Broken(ended.state)
               /\ ended.disk = ended.state
               /\ EveryOutcome(LAMBDA out :
                        out.res.kind # "StateInvariantViolation",
                      ended.state, now)
               /\ \A p \in SurfaceJoins :
                      Join(ended.state, p[1], p[2]).res.kind = "ok"
        /\ storageOk =>
              After(EndCombat(state)).result.kind = "ok"

\* C24 witness: the session is in combat with no initiative sequence and
\* the last command was refused with StateInvariantViolation.
C24_Witness ==
    /\ state.mode = "combat"
    /\ state.initiative = <<>>
    /\ state.currentIndex = NoIndex
    /\ result.kind = "StateInvariantViolation"
    /\ "Kira" \in Rows(state)

\* C25: after a character has been handed to the bot for being AFK, the
\* returning player's next valid action for that character (any action in
\* rp, an action on the character's turn in combat) is accepted, resets the
\* skip count to 0, restores status active and returns control of the
\* character from the bot to that player at once.
C25_ActionReturnsControl ==
    [][\A c \in Rows(state) \cap Rows(state'), v \in Viewers :
          (/\ Row(state, c).controller = v
           /\ Row(state', c).controller = Bot
           /\ Row(state', c).activityStatus = "afk"
           /\ state'.mode = "rp" \/ (state'.mode = "combat"
                                        /\ Current(state') = c)) =>
              LET after == Mutate(state', disk', storageOk',
                                  LogAction(state', v, c, now'))
              IN  /\ after.result.kind = "ok"
                  /\ Row(after.state, c).skipCount = 0
                  /\ Row(after.state, c).activityStatus = "active"
                  /\ Row(after.state, c).controller = v]_vars

RECURSIVE Turns(_, _, _)
Turns(s, n, clock) ==
    IF n = 0 THEN s
    ELSE Turns(Mutate(s, s, TRUE, NextTurn(s, clock)).state, n - 1, clock)

\* C30: next-turn in combat moves the current-turn pointer from index i to
\* (i + 1) mod N for a sequence of length N and sets a fresh deadline
\* (now + timeout) for the new current entry; N consecutive next-turn calls
\* bring the pointer back to the character it started on; the sequence
\* itself (membership and order) is changed neither by next-turn nor by
\* auto-advance.
C30_NextTurnCycles ==
    (state.mode = "combat" /\ HasTurn(state)) =>
        LET n == Len(state.initiative)
            after == After(NextTurn(state, now))
            timed == After(AutoAdvance(state, now))
            round == Turns(state, n, now)
        IN  /\ after.result.kind = "ok"
            /\ after.state.currentIndex = (state.currentIndex + 1) % n
            /\ after.state.deadline = now + state.timeout
            /\ after.state.deadline > now
            /\ after.state.initiative = state.initiative
            /\ after.state.mode = "combat"
            /\ Current(after.state) =
                   state.initiative[((state.currentIndex + 1) % n) + 1]
            /\ timed.state.initiative = state.initiative
            /\ timed.result.kind = "ok" =>
                   timed.state.currentIndex = (state.currentIndex + 1) % n
            /\ round.currentIndex = state.currentIndex
            /\ Current(round) = Current(state)
            /\ round.initiative = state.initiative
            /\ \A k \in 1..(n - 1) :
                   Turns(state, k, now).currentIndex =
                       (state.currentIndex + k) % n

\* C30 witness: at second 2 a next-turn has just moved the pointer of the
\* fight Kira, Stormtrooper from Kira, who was not skipped, to the
\* Stormtrooper and started a fresh one-second timer.
C30_Witness ==
    /\ now = 2
    /\ state.mode = "combat"
    /\ state.initiative = <<"Kira", "Stormtrooper">>
    /\ state.currentIndex = 1
    /\ state.timeout = 1
    /\ state.deadline = 3
    /\ "Kira" \in Rows(state)
    /\ Row(state, "Kira").skipCount = 0
    /\ state.actionLog = <<>>
    /\ result.kind = "ok"

(***************************************************************************)
(* Properties of the .env writer and of the Twitch token resolution.       *)
(***************************************************************************)
\* What a reader of the path gets: a missing file reads as the empty text.
ContentOf(file) == IF file = NoFile THEN <<>> ELSE file

\* C27: updateDotEnvFile writes the new content to a temporary file and
\* then renames it over the target: the .env file changes only in the
\* rename step and then, at once, from the complete previous content to the
\* complete new content, so a reader of the path sees the one or the other
\* at every moment of the call; a call that fails before the rename (read
\* error, write cut off, rename refused) leaves the previous content.
C27_EnvReplacedByRename ==
    /\ [](/\ update.pc \in {"read", "written"} =>
                ContentOf(envFile) = update.content
          /\ update.pc = "written" => tmpFile = update.output
          /\ update.pc = "renamed" =>
                /\ envFile = update.output
                /\ envFile = Output(update.content, update.updates))
    /\ [][/\ envFile' # envFile =>
                /\ update.pc = "written"
                /\ update'.pc = "renamed"
                /\ envFile' = Output(ContentOf(envFile), update.updates)
          /\ (update.pc \in {"called", "read", "written"}
                /\ update'.pc = "idle") => envFile' = envFile]_vars

\* C27 witness: the first call, a token refresh, was cut off half way
\* through its write: half of the new content lies in the temporary file
\* and the .env file still holds the three lines it had.
C27_Witness ==
    /\ update.pc = "idle"
    /\ update.calls = 1
    /\ envFile = Text(<<<<"#", Blank, "Twitch">>, Line(AccessKey, <<"t0">>),
                        Line(RefreshKey, <<"r0">>)>>)
    /\ tmpFile = <<"#", Blank, "Twitch", Newline, AccessKey, "=">>
    /\ processEnv[AccessKey] = <<"t0">>

\* The lines of a text file: the pieces between newlines, the newline at
\* the end of the last line not opening another one.
FileLines(text) ==
    IF text = <<>> THEN <<>>
    ELSE IF text[Len(text)] = Newline
    THEN Split(SubSeq(text, 1, Len(text) - 1))
    ELSE Split(text)

UpdatedKeys(updates) == {updates[i].key : i \in 1..Len(updates)}

\* The lines that carry none of the keys.
OtherLines(lines, keys) == SelectSeq(lines, LAMBDA l : KeyOf(l) \notin keys)

\* C28: updateDotEnvFile(envPath, updates) changes only the lines of the
\* keys in updates: a key already present is rewritten in place on its
\* line, a key not present is appended at the end, every other line
\* (comments, blanks, other keys) keeps its content and relative order,
\* and the same updates applied a second time leave the file unchanged.
C28_OnlyUpdatedKeysChange ==
    update.pc = "read" =>
        LET keys == UpdatedKeys(update.updates)
            old == FileLines(update.content)
            new == FileLines(update.output)
        IN  /\ \A k \in keys :
                  IF KeyIndex(old, k) # 0
                  THEN /\ KeyIndex(old, k) <= Len(new)
                       /\ \E i \in 1..Len(update.updates) :
                              /\ update.updates[i].key = k
                              /\ new[KeyIndex(old, k)] =
                                     FormatEnvLine(k, update.updates[i].value)
                  ELSE KeyIndex(new, k) > Len(old)
            /\ Output(update.output, update.updates) = update.output
            /\ OtherLines(new, keys) = OtherLines(old, keys)

\* The config objects tried: expanded once at startup, with the token of
\* that time at base level, under accounts.default, under accounts.alt, or
\* with no Twitch token at all.
Configs ==
    {[accessToken |-> base, accounts |-> accounts] :
        base \in {Undefined, <<"t0">>},
        accounts \in
            {[id \in {} |-> Undefined],
             [id \in {DefaultAccountId} |-> <<"oauth:", "t0">>],
             [id \in {DefaultAccountId, <<"alt">>} |->
                 IF id = DefaultAccountId THEN <<"t0">> ELSE <<"a0">>],
             [id \in {<<"alt">>} |-> <<Blank, "oauth:", "a0", Blank>>],
             [id \in {<<"alt">>} |-> <<>>]}}

\* A token with the oauth: prefix.
Prefixed(token) ==
    IF token # <<>> /\ Head(token) = "oauth:" THEN token
    ELSE <<"oauth:">> \o token

\* C29: for the default account (no id or the id default), once the
\* onRefresh callback has persisted a refreshed token (the .env file
\* renamed into place, process.env set), resolveTwitchToken returns the
\* refreshed access token with the oauth: prefix and source env, whatever
\* older token the config object holds; for a non-default account it never
\* returns the environment token: it returns that account's config token
\* with source config, or the empty token with source none when the
\* account has none.
C29_RefreshedTokenWins ==
    /\ [](\A cfg \in Configs, envToken \in {Undefined, <<"e9">>} :
            LET r == ResolveTwitchToken(cfg, <<"alt">>, envToken, processEnv)
                own == AccountToken(cfg, <<"alt">>)
            IN  /\ r.source # "env"
                /\ IF own \in {Undefined, <<>>}
                   THEN r = [token |-> <<>>, source |-> "none"]
                   ELSE r = [token |-> Prefixed(Trim(own)),
                             source |-> "config"])
    /\ [][(update.pc = "renamed" /\ update'.pc = "idle"
                /\ update.token # NoToken) =>
            /\ KeyIndex(Split(envFile'), <<AccessKey>>) # 0
            /\ Split(envFile')[KeyIndex(Split(envFile'), <<AccessKey>>)] =
                   Line(AccessKey, update.token.accessToken)
            /\ \A cfg \in Configs, id \in {Undefined, DefaultAccountId} :
                   ResolveTwitchToken(cfg, id, Undefined, processEnv') =
                       [token |-> Prefixed(update.token.accessToken),
                        source |-> "env"]]_vars

\* C29 witness: the refresh to t1 is persisted (the line is in the .env
\* file, process.env holds t1) while the process started with t0, the
\* token a config object expanded at startup still holds.
C29_Witness ==
    /\ update.pc = "idle"
    /\ update.calls = 1
    /\ processEnv[AccessKey] = <<"t1">>
    /\ envFile = Text(<<<<"#", Blank, "Twitch">>, Line(AccessKey, <<"t1">>),
                        Line(RefreshKey, <<"r1">>)>>)
    /\ ResolveTwitchToken(
           [accessToken |-> <<"t0">>,
            accounts |-> [id \in {DefaultAccountId} |-> <<"oauth:", "t0">>]],
           Undefined, Undefined, processEnv)
         = [token |-> <<"oauth:", "t1">>, source |-> "env"]

(***************************************************************************)
(* Properties of the landing position, the turn timer and the cutscene.    *)
(***************************************************************************)
\* The outcome of transfer-token with no position, the landing position
\* resolved first from the entry positions in found, then from the
\* default entry of the destination, else NoConnection with nothing moved.
ResolvedFrom(c, toMap, found) ==
    LET tok   == TokenOf(state, c)
        after == After(TransferToken(state, c, toMap, NoOne))
    IN  IF found # {}
        THEN /\ after.result.kind = "ok"
             /\ HasToken(after.state, c)
             /\ TokenOf(after.state, c).map = toMap
             /\ TokenOf(after.state, c).position \in found
        ELSE IF DefaultEntry(toMap) # NoOne
        THEN /\ after.result.kind = "ok"
             /\ HasToken(after.state, c)
             /\ TokenOf(after.state, c).map = toMap
             /\ TokenOf(after.state, c).position = DefaultEntry(toMap)
        ELSE /\ after.result.kind = "NoConnection"
             /\ after.state = state
             /\ TokenOf(after.state, c) = tok

\* C31 as stated: transfer-token(character, toMap) with no position lands
\* on the target of a connection entry whose source is the character's
\* current (map, position) and whose target map is toMap; else on toMap's
\* declared default entry position; else it fails with NoConnection and
\* the token stays on its map and position.
C31_LandingFromCurrentPosition ==
    \A c \in Characters, toMap \in MapScenes :
        (~Broken(state) /\ HasToken(state, c)) =>
            LET tok == TokenOf(state, c)
            IN  ResolvedFrom(c, toMap,
                    {x[4] : x \in {k \in Connections :
                        k[1] = tok.map /\ k[2] = tok.position
                            /\ k[3] = toMap}})

\* C31 amended: the connection entry is looked up by the character's
\* current map and the target map toMap, whatever position of its map the
\* token stands on; the order (connection, else toMap's default entry,
\* else NoConnection with the token left where it is) is as stated.
C31_LandingFromCurrentMap ==
    \A c \in Characters, toMap \in MapScenes :
        (~Broken(state) /\ HasToken(state, c)) =>
            LET tok == TokenOf(state, c)
            IN  ResolvedFrom(c, toMap,
                    {x[4] : x \in {k \in Connections :
                        k[1] = tok.map /\ k[3] = toMap}})

\* C31 witness: the Stormtrooper's hidden token stands at the entrance of
\* the cantina; hidden tokens are only placed at the checkpoint of the
\* streets, which is no exit, so a transfer without position brought it
\* here; and the last command was a transfer that found no way.
C31_Witness ==
    /\ HasToken(state, "Stormtrooper")
    /\ TokenOf(state, "Stormtrooper") =
           Token("Stormtrooper", "cantina.svg", "entrance", "red", TRUE)
    /\ HasToken(state, "Kira")
    /\ TokenOf(state, "Kira").map = "streets.svg"
    /\ result.kind = "NoConnection"

\* The characters in the initiative sequence.
InSequence(s) == {s.initiative[i] : i \in 1..Len(s.initiative)}

C33_OneAdvancePerDeadline ==
    (/\ Len(queue) = 2
     /\ queue[1].cmd = "auto-advance"
     /\ queue[2].cmd = "auto-advance"
     /\ state.mode = "combat"
     /\ HasTurn(state)
     /\ Expired(state, now)) =>
        LET c      == Current(state)
            first  == After(Run(state, queue[1], now))
            second == Mutate(first.state, first.disk, storageOk,
                             Run(first.state, queue[2], now))
        IN  /\ first.result.kind = "ok"
            /\ first.state.currentIndex =
                   (state.currentIndex + 1) % Len(state.initiative)
            /\ second.result.kind = "NotExpired"
            /\ second.state = first.state
            /\ second.disk = first.disk
            /\ Sequentially(state, queue, now) = first.state
            /\ second.state.currentIndex =
                   (state.currentIndex + 1) % Len(state.initiative)
            /\ second.state.deadline = now + state.timeout
            /\ \A r \in Rows(state) :
                   Row(second.state, r).skipCount =
                       Row(state, r).skipCount + (IF r = c THEN 1 ELSE 0)

\* C33 witness: two timer checks were waiting when Kira's deadline had
\* passed; the first has been applied (one skip for Kira, the turn on the
\* Stormtrooper), the second still waits and the new deadline is ahead.
C33_Witness ==
    /\ Len(queue) = 1
    /\ queue[1].cmd = "auto-advance"
    /\ state.mode = "combat"
    /\ Current(state) = "Stormtrooper"
    /\ "Kira" \in Rows(state)
    /\ Row(state, "Kira").skipCount = 1
    /\ result.kind = "ok"
    /\ ~Expired(state, now)
    /\ state.deadline = now + state.timeout

\* C34: while mode = cutscene with an initiative sequence kept from an
\* interrupted fight, auto-advance and next-turn leave the current-turn
\* pointer, every skip count, every status and every controller as they
\* are (the whole record, in fact), at the stored deadline, after it and
\* at any later second: auto-advance answers NoTimer, next-turn is
\* rejected; nobody is counted as having missed a turn or made idle or
\* AFK by them while barred from acting.
C34_CutsceneStopsTheTimer ==
    (state.mode = "cutscene" /\ state.initiative # <<>>) =>
        \A clock \in now..(MaxTime + 2) :
            LET auto == After(AutoAdvance(state, clock))
                next == After(NextTurn(state, clock))
            IN  /\ auto.result.kind = "NoTimer"
                /\ auto.state = state
                /\ auto.disk = disk
                /\ next.result.kind = "ValidationError"
                /\ next.state = state
                /\ next.disk = disk
                /\ \A out \in {auto, next} :
                      /\ out.state.currentIndex = state.currentIndex
                      /\ out.state.deadline = state.deadline
                      /\ \A r \in Rows(state) :
                            /\ Row(out.state, r).skipCount =
                                   Row(state, r).skipCount
                            /\ Row(out.state, r).activityStatus =
                                   Row(state, r).activityStatus
                            /\ Row(out.state, r).controller =
                                   Row(state, r).controller

\* C34 witness: the fight was cut away from on Kira's turn; her deadline
\* has passed during the cutscene, the timer check has just answered
\* NoTimer, and Kira, alice's still, has no missed turn on her row.
C34_Witness ==
    /\ state.mode = "cutscene"
    /\ state.initiative = <<"Kira", "Stormtrooper">>
    /\ Current(state) = "Kira"
    /\ state.deadline # NoDeadline
    /\ now > state.deadline
    /\ "Kira" \in Rows(state)
    /\ Row(state, "Kira").controller = "alice"
    /\ Row(state, "Kira").skipCount = 0
    /\ result.kind = "NoTimer"

\* The callback's updateDotEnvFile call is in flight.
Refreshing == update.pc # "idle" /\ update.token # NoToken

\* C35: in the onRefresh callback process.env is set to the refreshed
\* token values only after updateDotEnvFile has completed (the new .env
\* content renamed into place): every change of process.env is that one
\* step and writes the refreshed values; when the persisting fails (the
\* read, the write of the temporary file or the rename) process.env keeps
\* its values and the callback is at rest again, ready for the next
\* refresh; a refresh of a non-default account starts no write at all, so
\* neither the .env file nor process.env is modified by it.
C35_EnvSetOnlyAfterPersist ==
    /\ [](Refreshing => update.account \in {Undefined, DefaultAccountId})
    /\ [][/\ processEnv' # processEnv =>
                /\ update.pc = "renamed"
                /\ update'.pc = "idle"
                /\ Refreshing
                /\ envFile = update.output
                /\ envFile' = envFile
                /\ processEnv'[AccessKey] = update.token.accessToken
                /\ processEnv'[RefreshKey] =
                       IF update.token.refreshToken # Undefined
                       THEN update.token.refreshToken
                       ELSE processEnv[RefreshKey]
          /\ (update.pc \in {"called", "read", "written"}
                /\ update'.pc = "idle") =>
                /\ processEnv' = processEnv
                /\ envFile' = envFile
                /\ update' = Returned(update)
          /\ (update.pc = "renamed" /\ Refreshing) =>
                processEnv'[AccessKey] = update.token.accessToken
          /\ \A token \in RefreshedTokens :
                OnRefresh(<<"alt">>, token) =>
                    /\ envFile' = envFile
                    /\ tmpFile' = tmpFile
                    /\ processEnv' = processEnv
                    /\ update' = update]_vars

\* C35 witness: the refresh to t1 was written out whole to the temporary
\* file but the rename failed: the callback is at rest, the .env file is
\* still missing and process.env still holds the token of the start.
C35_Witness ==
    /\ update.pc = "idle"
    /\ update.calls = 1
    /\ envFile = NoFile
    /\ tmpFile = Output(<<>>, RefreshUpdates(
                     [accessToken |-> <<"t1">>, refreshToken |-> <<"r1">>]))
    /\ processEnv = [k \in EnvKeys |-> <<"t0">>]

(***************************************************************************)
(* Property of the startup script.                                         *)
(***************************************************************************)
\* The instances that are in the startup steps after the flock check.
Starting == {p \in Instances : instances[p].pc = "startup"}

\* C36: at any time at most one instance of start-moltbot.sh is in the
\* startup steps that follow the flock check, for every interleaving of
\* the cron invocation, the .bashrc invocation and a further one, also
\* when an earlier instance exits and its EXIT trap removes the lock file
\* while another instance has the file open.
C36_OneInstanceStarting ==
    Cardinality(Starting) <= 1

(***************************************************************************)
(* Properties of the TwitchClientManager.                                  *)
(***************************************************************************)
\* C37: the manager holds at most one connected ChatClient per account
\* key: for any interleaving of getClient and sendMessage calls for the
\* same account, calls that start while an earlier getClient still awaits
\* auth or connect included, only one ChatClient is made and connected and
\* every caller gets that same client.
C37_OneClientPerAccount ==
    /\ Cardinality(manager.connected) <= 1
    /\ \A c, d \in Callers2 :
          (/\ callers[c].pc = "returned"
           /\ callers[d].pc = "returned"
           /\ callers[c].client \in manager.connected
           /\ callers[d].client \in manager.connected) =>
                callers[c].client = callers[d].client

\* C40: a getClient that fails - missing token, missing client id, a
\* failed auth provider (the proactive refresh of an expired token), a
\* failed connect - stores no ChatClient under the account key: the step
\* in which a call fails leaves the clients map and the connected clients
\* as they are and hands no client to the caller, the client stored is
\* always one whose connect went through, and a getClient that finds no
\* stored client never returns one at once: it fails or goes on to make a
\* fresh connection.
C40_FailedGetClientStoresNothing ==
    /\ [](manager.clients # 0 => manager.clients \in manager.connected)
    /\ [][\A c \in Callers2 :
            /\ (callers'[c] # callers[c] /\ callers'[c].pc = "failed") =>
                  /\ manager'.clients = manager.clients
                  /\ manager'.connected = manager.connected
                  /\ callers'[c].client = 0
            /\ (/\ callers'[c] # callers[c]
                /\ callers[c].pc \in {"idle", "returned", "failed"}
                /\ manager.clients = 0) =>
                  /\ callers'[c].pc \in {"auth", "failed"}
                  /\ callers'[c].client = 0
            /\ (callers[c].pc = "connecting" /\ callers'[c].pc = "returned")
                  => /\ manager'.clients = callers'[c].client
                     /\ callers'[c].client \in manager'.connected]_vars

\* C40 witness: the only caller so far is on its second getClient: the
\* ChatClient of its first call never connected and nothing is stored, and
\* the call now awaits the connect of a second, fresh ChatClient.
C40_Witness ==
    /\ callers["sendMessage"] = NoCall
    /\ manager.gets = 2
    /\ manager.created = 2
    /\ manager.clients = 0
    /\ manager.connected = {}
    /\ callers["getClient"] = [pc |-> "connecting", client |-> 2]
    /\ removers = [h \in Handlers |-> "none"]

\* C39: the remover handed back by onMessage(account, handler) removes
\* only the handler it was handed back for: called while a second handler
\* is registered for the account it leaves that handler installed, and
\* incoming messages go on to the handler installed; a handler that was
\* removed, or whose account was disconnected, gets no further message.
C39_RemoverRemovesOnlyItsHandler ==
    [][/\ \A h \in Handlers :
            (removers[h] = "held" /\ removers'[h] = "called") =>
                manager'.messageHandlers =
                    IF manager.messageHandlers = h THEN NoOne
                    ELSE manager.messageHandlers
       /\ delivered' # delivered =>
            /\ delivered'.to = manager.messageHandlers
            /\ delivered'.to # NoOne => removers[delivered'.to] = "held"]_vars

(***************************************************************************)
(* Property of two overlapping .env updates.                               *)
(***************************************************************************)
\* The file holds the line of every update of the list.
Holds(file, updates) ==
    LET lines == Split(ContentOf(file))
    IN  \A i \in 1..Len(updates) :
            /\ KeyIndex(lines, updates[i].key) # 0
            /\ lines[KeyIndex(lines, updates[i].key)] =
                   FormatEnvLine(updates[i].key, updates[i].value)

\* C38: when two updateDotEnvFile calls on the same .env path run in one
\* process at the same time with updates to different keys, then once
\* both are over neither has failed (the shared temporary file name is no
\* obstacle) and the file holds the updates of both: neither
\* read-modify-write has overwritten the other's change.
C38_BothUpdatesSurvive ==
    (\A c \in PairCalls : overlap[c].pc \in {"done", "failed"}) =>
        \A c \in PairCalls :
            /\ overlap[c].pc = "done"
            /\ Holds(envFile, overlap[c].updates)

====
